---- MODULE Spec2Model ----
(***************************************************************************)
(* A model of the engram learning substrate: the SQLite-backed Repository, *)
(* the migration engine, the Apply renderer and the bBoN orchestrator with *)
(* its comparative judge driver.  Every subsystem has its own              *)
(* specification over the shared store variables.                          *)
(***************************************************************************)
EXTENDS Integers, Sequences, FiniteSets, TLC

VARIABLES
    \* ---- bBoN tables (0002_bbon_core.sql) ----
    bbonRuns,        \* set of rows of bbon_runs
    attempts,        \* set of rows of attempts
    attemptSteps,    \* set of rows of attempt_steps
    judgePairs,      \* set of rows of judge_pairs
    judgeOutcomes,   \* set of rows of judge_outcomes
    \* ---- one `bbon run` invocation (bbonRunCommand) ----
    runPc, runN, runI, runAttemptId, runStatus, runLearnResult, runInvocations,
    runArg,          \* ctx.args[0] of the invocation
    runSeed,         \* ctx.options.seed of the invocation
    runRunId,        \* run.id: the id of the run the invocation created
    runError,        \* the message of the error the last invocation threw
    runLearnBase,    \* how many learn calls had returned when the attempt began
    \* ---- `bbon judge` invocations (bbonJudgeCommand) ----
    judge,           \* per invocation: position, options and locals
    \* ---- the database seen by the migration engine (store/migrations.ts) ----
    dbTables,        \* names of the tables that exist
    schemaVersion,   \* versions recorded in schema_version
    mig,             \* the runMigrations call in progress: position and locals
    migLog,          \* the calls made so far with what they returned
    \* ---- knowledge and memory tables (0001_init.sql, 0003_memory_tiers.sql) ----
    knowledgeItems,  \* set of rows of knowledge_items
    insights,        \* set of rows of insights
    shortTermMemory, \* set of rows of memory_short_term
    workingMemory,   \* set of rows of working_memory
    memoryEvents,    \* set of rows of memory_events
    auditLog,        \* the records appended to the JSONL audit log
    repoLog,         \* the Repository calls made so far with what they returned
    \* ---- `apply` (applyCommand) ----
    agentsMd,        \* AGENTS.md: whether it exists and its content, a sequence of chunks
    clock,           \* the millisecond clock new Date() reads
    apply,           \* the applyCommand call in progress: position and locals
    applyLog,        \* the applyCommand calls made so far with what they returned
    \* ---- deterministicId applied to two JSON values (utils/id.ts) ----
    canon,           \* the two values and the ids derived so far
    \* ---- the connection registry (store/sqlite.ts DatabasePool) ----
    pool,            \* instances, closed handles, handle counter, database files
    poolLog,         \* the registry calls made so far with what they returned
    \* ---- `capture` and `learn` (captureCommand, learnCommand) ----
    traces,          \* set of rows of traces in .engram/engram.db
    aceDb,           \* the database file .ace/ace.db: whether it exists and its rows
    engramDb,        \* whether the database file .engram/engram.db exists
    learn,           \* the learnCommand call in progress: position and locals
    learnLog,        \* the learnCommand calls made so far with what they returned
    \* ---- `bbon adopt` (bbonAdoptCommand) ----
    adopt,           \* the bbonAdoptCommand call: position, ranking and result
    \* ---- `curate` invoked on its own (curateCommand) ----
    curateLog,       \* the curateCommand calls made so far with what they did
    \* ---- `curate` and `init` step by step at their transactions and calls ----
    session          \* of each: position, transaction open, external call in flight

bbonTables == <<bbonRuns, attempts, attemptSteps, judgePairs, judgeOutcomes>>
runVars    == <<runPc, runN, runI, runAttemptId, runStatus, runLearnResult, runInvocations,
                runArg, runSeed, runRunId, runError, runLearnBase>>

judgeVars  == <<judge>>

migVars    == <<dbTables, schemaVersion, mig, migLog>>

storeTables == <<knowledgeItems, insights, shortTermMemory, workingMemory, memoryEvents>>
storeVars  == <<storeTables, auditLog, repoLog>>

applyVars  == <<agentsMd, clock, apply, applyLog>>

canonVars  == <<canon>>
poolVars   == <<pool, poolLog>>
learnVars  == <<traces, aceDb, engramDb, learn, learnLog>>
adoptVars  == <<adopt>>
curateVars == <<curateLog, session>>

vars == <<bbonTables, runVars, judgeVars, migVars, storeVars, applyVars,
          canonVars, poolVars, learnVars, adoptVars, curateVars>>

\* what the actions of one subsystem leave alone
notRun   == <<judgeVars, migVars, storeVars, applyVars, canonVars, poolVars, learnVars, adoptVars, curateVars>>
notJudge == <<runVars, migVars, storeVars, applyVars, canonVars, poolVars, learnVars, adoptVars, curateVars>>
notMig   == <<bbonTables, runVars, judgeVars, storeVars, applyVars,
              canonVars, poolVars, learnVars, adoptVars, curateVars>>
notRepo  == <<bbonTables, runVars, judgeVars, migVars, applyVars,
              canonVars, poolVars, learnVars, adoptVars, curateVars>>
notAttempt == <<bbonRuns, attemptSteps, judgePairs, judgeOutcomes, runVars, judgeVars,
                migVars, storeTables, auditLog, applyVars, canonVars, poolVars,
                learnVars, adoptVars, curateVars>>
notApply == <<bbonTables, runVars, judgeVars, migVars, auditLog, repoLog,
              canonVars, poolVars, learnVars, adoptVars, curateVars>>
notCanon == <<bbonTables, runVars, judgeVars, migVars, storeVars, applyVars,
              poolVars, learnVars, adoptVars, curateVars>>
notPool  == <<bbonTables, runVars, judgeVars, migVars, storeVars, applyVars,
              canonVars, learnVars, adoptVars, curateVars>>
notLearn == <<bbonTables, runVars, judgeVars, migVars, auditLog, repoLog,
              canonVars, poolVars, engramDb, adoptVars, curateVars>>

-----------------------------------------------------------------------------
(* Bounds of the model *)

MaxN == 2                \* largest --n of a bbon run
MaxRunInvocations == 2   \* how many times `bbon run` is invoked
MaxJudges == 2           \* how many times `bbon judge` is invoked
MaxMigrateCalls == 3     \* how many migration calls are made on one database
MaxRepoCalls == 3        \* how many Repository calls are made on one store
MaxAuditCalls == 2       \* how many of them are made next to the audit log writers
MaxApplies == 2          \* how many times `apply` is invoked
MaxClock == 2            \* how many milliseconds the clock advances
MaxPoolCalls == 4        \* how many calls are made on the connection registry
MaxLearns == 2           \* how many times `learn` is invoked
MaxInits == 1            \* how many times `init` is invoked step by step
MaxCurates == 2          \* how many times `curate` is invoked on its own
MaxReflectTraces == 3    \* how many traces are captured before `reflect`
MaxAuditLines == 2       \* how many lines the writers append to the audit log

-----------------------------------------------------------------------------
(* Shared values *)

Null == "null"           \* SQL NULL / JS null / undefined in a column or option
NoRow == [absent |-> TRUE]   \* the null a lookup returns when no row matches
\* no id derived yet
NoId == <<>>

\* new Date().toISOString(): the instant of the call (one abstract instant)
Now == "now"

\* utils/id.ts deterministicId: SHA-256 of the canonical form of the creation
\* inputs; the digest is modelled by the tagged inputs (no collisions).
deterministicId(obj) == <<"sha256", obj>>

-----------------------------------------------------------------------------
(* bBoN tables *)

AttemptStatus == {"pending", "running", "completed", "failed"}
Terminal == {"completed", "failed"}

\* the task spec and config of the invocations are fixed; n and seed vary
TaskId == deterministicId([spec |-> "goal"])

\* --seed: absent, an integer, or something else
SeedOptions == {Null, "42", "x"}

\* parseInt(seed, 10) followed by isNaN
IsInteger(text) == text \in {"42"}
parseInt(text) == IF text = "42" THEN 42 ELSE 0

\* run.ts 88: the seed option parsed, or Date.now() at the instant now
SeedOf(option, now) == IF option # Null THEN parseInt(option) ELSE now

BbonRunInput(n, seed) == [taskId |-> TaskId, n |-> n, seed |-> seed, config |-> "{}"]

\* Repository.addBbonRun: INSERT OR IGNORE on the derived id
addBbonRun(rows, run) ==
    LET id == deterministicId(run) IN
    IF \E r \in rows : r.id = id THEN rows
    ELSE rows \cup {[id |-> id, taskId |-> run.taskId, n |-> run.n, seed |-> run.seed]}

\* Repository.getAttempt
getAttempt(rows, id) ==
    IF \E r \in rows : r.id = id THEN CHOOSE r \in rows : r.id = id ELSE NoRow

\* Repository.addAttempt: INSERT OR IGNORE (PRIMARY KEY id, UNIQUE(run_id, ordinal))
addAttempt(rows, attempt) ==
    LET id == deterministicId(attempt) IN
    IF \E r \in rows : r.id = id \/ (r.runId = attempt.runId /\ r.ordinal = attempt.ordinal)
    THEN rows
    ELSE rows \cup {[id |-> id, runId |-> attempt.runId, ordinal |-> attempt.ordinal,
                     status |-> attempt.status, result |-> attempt.result,
                     completedAt |-> Null]}

\* a mutant of updateAttempt: the completedAt of the patch is not written
updateAttempt_DropCompletedAt(rows, id, updates) ==
    { IF r.id # id THEN r
      ELSE [r EXCEPT
              !.status = IF "status" \in DOMAIN updates THEN updates.status ELSE @,
              !.result = IF "result" \in DOMAIN updates THEN updates.result ELSE @]
      : r \in rows }

\* Repository.updateAttempt: patches the given subset of columns; a field
\* the patch does not have is `undefined` and leaves its column alone.  No
\* check of the current status is made.
updateAttempt(rows, id, updates) ==
    IF DOMAIN updates = {}
    THEN rows
    ELSE { IF r.id # id THEN r
           ELSE [r EXCEPT
                   !.status = IF "status" \in DOMAIN updates THEN updates.status ELSE @,
                   !.result = IF "result" \in DOMAIN updates THEN updates.result ELSE @,
                   !.completedAt = IF "completedAt" \in DOMAIN updates
                                   THEN updates.completedAt ELSE @]
           : r \in rows }

\* Repository.updateAttemptStatus: the status is always written, completedAt
\* when it is truthy (neither undefined nor the empty string), the result when
\* it is not undefined.  No check of the current status is made.
updateAttemptStatus(rows, id, status, completedAt, result) ==
    { IF r.id # id THEN r
      ELSE [r EXCEPT
              !.status = status,
              !.completedAt = IF completedAt \notin {Null, ""} THEN completedAt ELSE @,
              !.result = IF result # Null THEN result ELSE @]
      : r \in rows }

\* Repository.addAttemptStep: INSERT OR IGNORE on the derived id; a new row
\* gets the next rowid of the table
addAttemptStep(rows, step) ==
    LET id == deterministicId(step) IN
    IF \E r \in rows : r.id = id THEN rows
    ELSE rows \cup {[id |-> id, attemptId |-> step.attemptId,
                     stepIndex |-> step.stepIndex, kind |-> step.kind,
                     input |-> step.input, output |-> step.output,
                     observation |-> step.observation,
                     rowid |-> Cardinality(rows) + 1]}

\* template literal ${n} of an integer: Number.prototype.toString
Digits == <<"0", "1", "2", "3", "4", "5", "6", "7", "8", "9">>
RECURSIVE NumberToString(_)
NumberToString(n) ==
    IF n < 0 THEN "-" \o NumberToString(0 - n)
    ELSE IF n < 10 THEN Digits[n + 1]
    ELSE NumberToString(n \div 10) \o Digits[(n % 10) + 1]

\* Repository.listAttemptSteps: the steps of the attempt, ORDER BY step_index
\* ASC; the rows of one index come in the order they were inserted
listAttemptSteps(rows, attemptId) ==
    LET S == {s \in rows : s.attemptId = attemptId}
        before(s, t) == \/ s.stepIndex < t.stepIndex
                        \/ s.stepIndex = t.stepIndex /\ s.rowid < t.rowid
    IN CHOOSE q \in [1..Cardinality(S) -> S] :
          \A i, k \in 1..Cardinality(S) : i < k => before(q[i], q[k])

\* narrativeDiff.ts alignSteps: the two step lists side by side, index by
\* index, with what differs at the index; a side that has no step at the
\* index has no entry, and steps that agree have no delta
StepInfo(step) == [kind |-> step.kind, input |-> step.input, output |-> step.output,
                   observation |-> step.observation]
alignSteps(leftSteps, rightSteps) ==
    LET maxLen == IF Len(leftSteps) > Len(rightSteps) THEN Len(leftSteps)
                  ELSE Len(rightSteps)
    IN [n \in 1..maxLen |->
          LET i == n - 1
              hasLeft == n <= Len(leftSteps)
              hasRight == n <= Len(rightSteps)
              at == "Step " \o NumberToString(i) \o ": "
          IN [index |-> i,
              leftStep |-> IF hasLeft THEN StepInfo(leftSteps[n]) ELSE NoRow,
              rightStep |-> IF hasRight THEN StepInfo(rightSteps[n]) ELSE NoRow,
              delta |-> IF hasLeft /\ hasRight
                        THEN IF leftSteps[n].kind # rightSteps[n].kind
                             THEN at \o "kind differs (" \o leftSteps[n].kind \o " vs "
                                     \o rightSteps[n].kind \o ")"
                             ELSE IF \/ leftSteps[n].output # rightSteps[n].output
                                     \/ leftSteps[n].observation # rightSteps[n].observation
                                  THEN at \o "output or observation differs"
                                  ELSE Null
                        ELSE IF hasLeft
                             THEN at \o "only in left attempt (" \o leftSteps[n].kind \o ")"
                             ELSE at \o "only in right attempt (" \o rightSteps[n].kind \o ")"]]

\* Array.prototype.filter(s => s.kind === kind)
StepsOfKind(steps, kind) == SelectSeq(steps, LAMBDA s : s.kind = kind)

\* narrativeDiff.ts computeDeltas: status, step count, error count and the
\* output of the first learn_complete step, each pushed when the two sides
\* differ, in this order
computeDeltas(leftAttempt, rightAttempt, leftSteps, rightSteps) ==
    LET delta(path, leftValue, rightValue, description) ==
            <<[type |-> "modified", path |-> path, leftValue |-> leftValue,
               rightValue |-> rightValue, description |-> description]>>
        leftErrorSteps == StepsOfKind(leftSteps, "error")
        rightErrorSteps == StepsOfKind(rightSteps, "error")
        leftLearnSteps == StepsOfKind(leftSteps, "learn_complete")
        rightLearnSteps == StepsOfKind(rightSteps, "learn_complete")
    IN (IF leftAttempt.status # rightAttempt.status
        THEN delta("status", leftAttempt.status, rightAttempt.status,
                   "Status: " \o leftAttempt.status \o " → " \o rightAttempt.status)
        ELSE <<>>)
       \o (IF Len(leftSteps) # Len(rightSteps)
           THEN delta("steps.length", Len(leftSteps), Len(rightSteps),
                      "Step count: " \o NumberToString(Len(leftSteps))
                         \o " → " \o NumberToString(Len(rightSteps)))
           ELSE <<>>)
       \o (IF Len(leftErrorSteps) # Len(rightErrorSteps)
           THEN delta("errors.count", Len(leftErrorSteps), Len(rightErrorSteps),
                      "Error count: " \o NumberToString(Len(leftErrorSteps))
                         \o " → " \o NumberToString(Len(rightErrorSteps)))
           ELSE <<>>)
       \o (IF /\ Len(leftLearnSteps) > 0
              /\ Len(rightLearnSteps) > 0
              /\ leftLearnSteps[1].output # rightLearnSteps[1].output
           THEN delta("learn_complete.output", leftLearnSteps[1].output,
                      rightLearnSteps[1].output, "Learning outcomes differ")
           ELSE <<>>)

\* narrativeDiff.ts extractProsCons: what speaks for and against each side:
\* first the status of each attempt, then the deltas in their order, each
\* pushing onto the lists (so `More concise` comes before `Fewer errors`)
RECURSIVE PushDeltas(_, _, _)
PushDeltas(lists, deltas, i) ==
    IF i > Len(deltas) THEN lists
    ELSE LET d == deltas[i]
             l == NumberToString(d.leftValue)
             r == NumberToString(d.rightValue)
             errors ==
                 IF d.path # "errors.count" \/ d.leftValue = d.rightValue THEN lists
                 ELSE IF d.leftValue < d.rightValue
                 THEN [lists EXCEPT
                         !.leftPros = Append(@, "Fewer errors (" \o l \o " vs " \o r \o ")"),
                         !.rightCons = Append(@, "More errors (" \o r \o " vs " \o l \o ")")]
                 ELSE [lists EXCEPT
                         !.rightPros = Append(@, "Fewer errors (" \o r \o " vs " \o l \o ")"),
                         !.leftCons = Append(@, "More errors (" \o l \o " vs " \o r \o ")")]
             steps ==
                 IF d.path # "steps.length" \/ d.leftValue = d.rightValue THEN errors
                 ELSE IF d.leftValue < d.rightValue
                 THEN [errors EXCEPT
                         !.leftPros = Append(@, "More concise (" \o l \o " steps vs "
                                                   \o r \o ")")]
                 ELSE [errors EXCEPT
                         !.rightPros = Append(@, "More concise (" \o r \o " steps vs "
                                                    \o l \o ")")]
         IN PushDeltas(steps, deltas, i + 1)

extractProsCons(leftAttempt, rightAttempt, deltas) ==
    PushDeltas([leftPros |-> IF leftAttempt.status = "completed"
                             THEN <<"Completed successfully">> ELSE <<>>,
                leftCons |-> IF leftAttempt.status = "completed" THEN <<>>
                             ELSE <<"Failed with status: " \o leftAttempt.status>>,
                rightPros |-> IF rightAttempt.status = "completed"
                              THEN <<"Completed successfully">> ELSE <<>>,
                rightCons |-> IF rightAttempt.status = "completed" THEN <<>>
                              ELSE <<"Failed with status: " \o rightAttempt.status>>],
               deltas, 1)

\* narrativeDiff.ts generateSummary: the lines that are joined with a line
\* feed: the two attempts (the head of each id, which tells the attempts of
\* a store apart) and their statuses, the first three differences and how
\* many more there are, and which side has the higher score (pros minus cons)
generateSummary(leftAttempt, rightAttempt, deltas, prosCons) ==
    LET leftScore == Len(prosCons.leftPros) - Len(prosCons.leftCons)
        rightScore == Len(prosCons.rightPros) - Len(prosCons.rightCons)
        shown == IF Len(deltas) > 3 THEN 3 ELSE Len(deltas)
    IN <<<<"Comparing attempt ", leftAttempt.id, " (" \o leftAttempt.status \o ") vs ",
           rightAttempt.id, " (" \o rightAttempt.status \o ")">>>>
       \o (IF Len(deltas) > 0
           THEN <<"Found " \o NumberToString(Len(deltas)) \o " differences:">>
                \o [i \in 1..shown |-> "  - " \o deltas[i].description]
                \o (IF Len(deltas) > 3
                    THEN <<"  ... and " \o NumberToString(Len(deltas) - 3) \o " more">>
                    ELSE <<>>)
           ELSE <<"Attempts are structurally similar">>)
       \o <<IF leftScore > rightScore
            THEN "Left attempt appears stronger (score: " \o NumberToString(leftScore)
                    \o " vs " \o NumberToString(rightScore) \o ")"
            ELSE IF rightScore > leftScore
            THEN "Right attempt appears stronger (score: " \o NumberToString(rightScore)
                    \o " vs " \o NumberToString(leftScore) \o ")"
            ELSE "Attempts appear equally strong (score: " \o NumberToString(leftScore)
                    \o ")">>

\* narrativeDiff.ts generateNarrativeDiff: computed from the two attempts and
\* their steps as they are stored at the time of the call
generateNarrativeDiff(leftAttempt, rightAttempt, leftSteps, rightSteps) ==
    LET alignedSteps == alignSteps(leftSteps, rightSteps)
        deltas == computeDeltas(leftAttempt, rightAttempt, leftSteps, rightSteps)
        prosCons == extractProsCons(leftAttempt, rightAttempt, deltas)
        summary == generateSummary(leftAttempt, rightAttempt, deltas, prosCons)
    IN [leftAttemptId |-> leftAttempt.id,
        rightAttemptId |-> rightAttempt.id,
        alignedSteps |-> alignedSteps,
        deltas |-> deltas,
        prosCons |-> prosCons,
        summary |-> summary]

-----------------------------------------------------------------------------
(* bbon run: bbonRunCommand, one invocation at a time *)

InitBbonTables ==
    /\ bbonRuns = {}
    /\ attempts = {}
    /\ attemptSteps = {}
    /\ judgePairs = {}
    /\ judgeOutcomes = {}

InitRunProc ==
    /\ runPc = "idle"
    /\ runN = 0
    /\ runI = 0
    /\ runAttemptId = Null
    /\ runStatus = Null
    /\ runLearnResult = NoRow
    /\ runInvocations = 0
    /\ runArg = Null
    /\ runSeed = Null
    /\ runRunId = NoId
    /\ runError = Null
    /\ runLearnBase = 0

\* the id of the run of `bbon run --n n --seed 42`
RunId(n) == deterministicId(BbonRunInput(n, SeedOf("42", 0)))

\* ctx.args[0] of `bbon run`: absent when the task spec comes from stdin,
\* otherwise the JSON text of the task spec or the path of its file
RunArgs == {Null, "{goal}", "{}"}

\* what stdin delivers when it is not a terminal
StdinTexts == {"{goal}", "{}"}

\* --n: absent (3 attempts) is not drawn; 0 is refused
RunNs == 0..MaxN

\* run.ts 66-78: JSON.parse and TaskSpecSchema: a goal is required
TaskSpecSchema(raw) == raw = "{goal}"

\* addTask (part_015 542-545): the statement is prepared on the tasks table
TasksTable == "tasks" \in dbTables

\* the frame of the steps of bbonRunCommand before the first attempt
RunSetupFrame ==
    /\ UNCHANGED <<attempts, attemptSteps, judgePairs, judgeOutcomes,
                   runAttemptId, runStatus, runLearnResult, runLearnBase>>
    /\ UNCHANGED <<judgeVars, migVars, storeVars, applyVars, canonVars, poolVars,
                   traces, aceDb, learn, learnLog, adoptVars, curateVars>>

\* bbonRunCommand throws message: the command is over, nothing is written
RunThrow(message) ==
    /\ runError' = message
    /\ runPc' = "idle"
    /\ UNCHANGED <<bbonRuns, runN, runI, runRunId, runArg, runSeed>>

\* run.ts 66-129: the task spec is parsed and the options are validated, then
\* getDatabase (which creates the database file when it is not there),
\* addTask, addBbonRun; the seed is the option or Date.now()
RunCreate(n, arg, raw, seed) ==
    IF ~TaskSpecSchema(raw)
    THEN RunThrow("Invalid task spec") /\ UNCHANGED engramDb
    ELSE IF n < 1
    THEN RunThrow("--n must be a positive integer") /\ UNCHANGED engramDb
    ELSE IF seed # Null /\ ~IsInteger(seed)
    THEN RunThrow("--seed must be an integer") /\ UNCHANGED engramDb
    ELSE /\ engramDb' = TRUE
         /\ IF ~TasksTable
            THEN RunThrow("no such table: tasks")
            ELSE LET input == BbonRunInput(n, SeedOf(seed, clock))
                 IN /\ bbonRuns' = addBbonRun(bbonRuns, input)
                    /\ runRunId' = deterministicId(input)
                    /\ runN' = n
                    /\ runI' = 0
                    /\ runArg' = arg
                    /\ runSeed' = seed
                    /\ runError' = Null
                    /\ runPc' = "add"

\* run.ts 42-64 (and 66-129 when nothing is awaited): the database file is
\* looked for; the task spec is the file or the text of the first argument,
\* or it is awaited from stdin when stdin is not a terminal
RunInvoke(n, arg, seed, isTTY) ==
    /\ runPc = "idle"
    /\ runInvocations < MaxRunInvocations
    /\ runInvocations' = runInvocations + 1
    /\ IF ~engramDb
       THEN RunThrow("Database not initialized (run: en init)") /\ UNCHANGED engramDb
       ELSE IF arg # Null
       THEN RunCreate(n, arg, arg, seed)
       ELSE IF ~isTTY
       THEN /\ runN' = n
            /\ runArg' = arg
            /\ runSeed' = seed
            /\ runError' = Null
            /\ runPc' = "read"
            /\ UNCHANGED <<bbonRuns, runI, runRunId, engramDb>>
       ELSE RunThrow("No task spec provided") /\ UNCHANGED engramDb
    /\ RunSetupFrame

\* run.ts 57, 66-129: readAllStdin resolves with what stdin delivered
RunReadStdin(raw) ==
    /\ runPc = "read"
    /\ RunCreate(runN, runArg, raw, runSeed)
    /\ UNCHANGED runInvocations
    /\ RunSetupFrame

\* the directory .engram is removed by another program while the command
\* waits for stdin, after it has seen the database file and before it opens
\* it: the rows and the schema are gone with the file
RemoveEngramDir ==
    /\ runPc = "read"
    /\ engramDb
    /\ engramDb' = FALSE
    /\ dbTables' = {}
    /\ schemaVersion' = {}
    /\ bbonRuns' = {}
    /\ attempts' = {}
    /\ attemptSteps' = {}
    /\ judgePairs' = {}
    /\ judgeOutcomes' = {}
    /\ knowledgeItems' = {}
    /\ insights' = {}
    /\ shortTermMemory' = {}
    /\ workingMemory' = {}
    /\ memoryEvents' = {}
    /\ traces' = {}
    /\ UNCHANGED <<runVars, judgeVars, mig, migLog, auditLog, repoLog, applyVars,
                   canonVars, poolVars, aceDb, learn, learnLog, adoptVars, curateVars>>

\* run.ts 131-137: addAttempt for ordinal i, status pending
RunAddAttempt ==
    /\ runPc = "add"
    /\ LET input == [runId |-> runRunId, ordinal |-> runI,
                     status |-> "pending", result |-> "{}"]
       IN /\ attempts' = addAttempt(attempts, input)
          /\ runAttemptId' = deterministicId(input)
    /\ runPc' = "mark"
    /\ UNCHANGED <<bbonRuns, attemptSteps, judgePairs, judgeOutcomes,
                   runN, runI, runStatus, runLearnResult, runInvocations,
                   runArg, runSeed, runRunId, runError, runLearnBase>>
    /\ UNCHANGED notRun

\* run.ts 143-146: updateAttempt(id, {status: 'running'})
RunMarkRunning ==
    /\ runPc = "mark"
    /\ attempts' = updateAttempt(attempts, runAttemptId, [status |-> "running"])
    /\ runStatus' = "completed"
    /\ runLearnResult' = NoRow
    /\ runPc' = "reflect"
    /\ UNCHANGED <<bbonRuns, attemptSteps, judgePairs, judgeOutcomes,
                   runN, runI, runAttemptId, runInvocations, runArg, runSeed, runRunId, runError, runLearnBase>>
    /\ UNCHANGED notRun

\* run.ts 154-161: the `reflect` step, stepIndex 0; learnCommand is called next
RunReflectStep ==
    /\ runPc = "reflect"
    /\ attemptSteps' = addAttemptStep(attemptSteps,
                          [attemptId |-> runAttemptId, stepIndex |-> 0, kind |-> "reflect",
                           input |-> "{task}", output |-> "{}", observation |-> "{}"])
    /\ runLearnBase' = Len(learnLog)
    /\ runPc' = "learn"
    /\ UNCHANGED <<bbonRuns, attempts, judgePairs, judgeOutcomes,
                   runN, runI, runAttemptId, runStatus, runLearnResult, runInvocations,
                   runArg, runSeed, runRunId, runError>>
    /\ UNCHANGED notRun

\* run.ts 201-218: updateAttempt(id, {status, result, completedAt}); next ordinal
RunFinishAttempt ==
    /\ runPc = "finish"
    /\ attempts' = updateAttempt(attempts, runAttemptId,
                      [status |-> runStatus,
                       result |-> IF runLearnResult # NoRow THEN runLearnResult ELSE "{}",
                       completedAt |-> Now])
    /\ runI' = runI + 1
    /\ runPc' = IF runI + 1 < runN THEN "add" ELSE "idle"
    /\ UNCHANGED <<bbonRuns, attemptSteps, judgePairs, judgeOutcomes,
                   runN, runAttemptId, runStatus, runLearnResult, runInvocations,
                   runArg, runSeed, runRunId, runError, runLearnBase>>
    /\ UNCHANGED notRun

\* a `bbon judge` invocation that has not started
IdleJudge == [pc |-> "idle", model |-> Null, promptVersion |-> Null, pairs |-> <<>>,
              k |-> 1, judgePair |-> NoRow, narrativeDiff |-> NoRow,
              judgment |-> NoRow, outcomes |-> <<>>,
              cachedAtStart |-> {}, called |-> {}, inTransaction |-> FALSE,
              runId |-> NoId, answered |-> <<>>]

InitJudgeProc == judge = [j \in 1..MaxJudges |-> IdleJudge]

-----------------------------------------------------------------------------
(* C1 *)

\* C1 (as claimed): once an Attempt's status is completed or failed, no step
\* of the program changes its status again.
C1_TerminalAbsorbing ==
    [][\A a \in attempts : a.status \in Terminal =>
          \A b \in attempts' : b.id = a.id => b.status = a.status]_vars

-----------------------------------------------------------------------------
(* bbon judge: bbonJudgeCommand.  Each invocation is a separate CLI process, *)
(* so its SQL statements and its LLM call interleave with those of others.   *)

PromptVersions == {"v1", "v2"}      \* --prompt-version
Models == {"gpt-4"}                 \* --model (default)

\* what the LLM can answer for a pair: the response schema of
\* parseJudgmentResponse, confidence in tenths
Rationales == {"r1", "r2"}
LLMResponses == {[winner |-> "A", confidence |-> 9, rationale |-> r] : r \in Rationales}
                \cup {[winner |-> "B", confidence |-> 6, rationale |-> "r1"],
                      [winner |-> "tie", confidence |-> 5, rationale |-> "r1"]}

\* Repository.listAttempts + judge.ts 57-58: the completed attempts of the run
CompletedAttempts(rows, runId) ==
    {a \in rows : a.runId = runId /\ a.status = "completed"}

\* judge.ts 71-80: every pair (i < j) of the completed attempts in ordinal
\* order (listAttempts is ORDER BY ordinal ASC), as a list
PairBefore(p, q) ==
    \/ p.left.ordinal < q.left.ordinal
    \/ p.left.ordinal = q.left.ordinal /\ p.right.ordinal <= q.right.ordinal

RECURSIVE PairList(_)
PairList(S) ==
    IF S = {} THEN <<>>
    ELSE LET m == CHOOSE p \in S : \A q \in S : PairBefore(p, q)
         IN <<[leftAttemptId |-> m.left.id, rightAttemptId |-> m.right.id]>>
            \o PairList(S \ {m})

GeneratePairs(completed) ==
    PairList({[left |-> a, right |-> b] : a \in completed, b \in completed}
             \cap {p \in [left : completed, right : completed] :
                     p.left.ordinal < p.right.ordinal})

\* Repository.listJudgePairs + judge.ts 97-103: the stored pair of the run
\* with these two attempts, in either orientation (first in list order)
FindExistingPair(rows, runId, pair) ==
    LET hits == {p \in rows : /\ p.runId = runId
                              /\ \/ /\ p.leftAttemptId = pair.leftAttemptId
                                    /\ p.rightAttemptId = pair.rightAttemptId
                                 \/ /\ p.leftAttemptId = pair.rightAttemptId
                                    /\ p.rightAttemptId = pair.leftAttemptId}
    IN IF hits = {} THEN NoRow
       ELSE CHOOSE p \in hits : \A q \in hits : p.rowid <= q.rowid

\* Repository.getJudgePair
getJudgePair(rows, id) ==
    IF \E r \in rows : r.id = id THEN CHOOSE r \in rows : r.id = id ELSE NoRow

\* mutant: judge_pairs without UNIQUE(run_id, left_attempt_id, right_attempt_id)
addJudgePair_NoUnique(rows, pair) ==
    LET id == deterministicId(pair) IN
    IF \E r \in rows : r.id = id
    THEN rows
    ELSE rows \cup {[id |-> id, runId |-> pair.runId,
                     leftAttemptId |-> pair.leftAttemptId,
                     rightAttemptId |-> pair.rightAttemptId,
                     promptVersion |-> pair.promptVersion,
                     rowid |-> Cardinality(rows) + 1]}

\* Repository.addJudgePair: INSERT OR IGNORE (PRIMARY KEY id,
\* UNIQUE(run_id, left_attempt_id, right_attempt_id))
addJudgePair(rows, pair) ==
    LET id == deterministicId(pair) IN
    IF \E r \in rows : \/ r.id = id
                       \/ /\ r.runId = pair.runId
                          /\ r.leftAttemptId = pair.leftAttemptId
                          /\ r.rightAttemptId = pair.rightAttemptId
    THEN rows
    ELSE rows \cup {[id |-> id, runId |-> pair.runId,
                     leftAttemptId |-> pair.leftAttemptId,
                     rightAttemptId |-> pair.rightAttemptId,
                     promptVersion |-> pair.promptVersion,
                     rowid |-> Cardinality(rows) + 1]}

\* mutant: the lookup compares the outcome's id, not its pair_id
getJudgeOutcomeByPairId_ById(rows, pairId) ==
    LET hits == {o \in rows : o.id = pairId}
    IN IF hits = {} THEN NoRow
       ELSE CHOOSE o \in hits : \A q \in hits : o.rowid <= q.rowid

\* Repository.getJudgeOutcomeByPairId: the first row with this pair_id
getJudgeOutcomeByPairId(rows, pairId) ==
    LET hits == {o \in rows : o.pairId = pairId}
    IN IF hits = {} THEN NoRow
       ELSE CHOOSE o \in hits : \A q \in hits : o.rowid <= q.rowid

\* Repository.addJudgeOutcome: INSERT OR IGNORE on the id derived from the
\* whole input: pair, winner, confidence, rationale text, narrative diff and
\* model (the table has no uniqueness on pair_id)
addJudgeOutcome(rows, outcome) ==
    LET id == deterministicId(outcome) IN
    IF \E r \in rows : r.id = id THEN rows
    ELSE rows \cup {[id |-> id, pairId |-> outcome.pairId,
                     winnerAttemptId |-> outcome.winnerAttemptId,
                     confidence |-> outcome.confidence,
                     rationaleText |-> outcome.rationaleText,
                     narrativeDiff |-> outcome.narrativeDiff,
                     model |-> outcome.model,
                     rowid |-> Cardinality(rows) + 1]}

\* a mutant of parseJudgmentResponse: winner is any string, looked up in
\* {A: left, B: right}
parseJudgmentResponse_AnyWinner(response, leftAttemptId, rightAttemptId) ==
    [winnerAttemptId |-> IF response.winner = "A" THEN leftAttemptId
                         ELSE IF response.winner = "B" THEN rightAttemptId ELSE NoId,
     confidence |-> response.confidence,
     rationale |-> response.rationale]

\* comparativeJudge.ts parseJudgmentResponse: the answer must have winner A or
\* B and a confidence in 0..1, or the function throws (NoRow); A -> left,
\* B -> right
parseJudgmentResponse(response, leftAttemptId, rightAttemptId) ==
    IF response.winner \notin {"A", "B"} \/ response.confidence < 0 \/ response.confidence > 10
    THEN NoRow
    ELSE [winnerAttemptId |-> IF response.winner = "A" THEN leftAttemptId
                              ELSE rightAttemptId,
          confidence |-> response.confidence,
          rationale |-> response.rationale]

JudgedRun == RunId(MaxN)             \* the --run option

CurrentPair(j) == judge[j].pairs[judge[j].k]

UnorderedPair(p) == {p.leftAttemptId, p.rightAttemptId}

\* the pairs of the run that have a stored outcome
PairsWithOutcome ==
    {UnorderedPair(p) : p \in {q \in judgePairs :
                                 \E o \in judgeOutcomes : o.pairId = q.id}}

\* judge.ts 129-134, 175-183: push the outcome, go to the next pair
PushOutcome(j, pairRow, o) ==
    LET js == judge[j]
        out == Append(js.outcomes,
                      [pairId |-> pairRow.id, leftAttemptId |-> pairRow.leftAttemptId,
                       rightAttemptId |-> pairRow.rightAttemptId,
                       winnerAttemptId |-> o.winnerAttemptId,
                       confidence |-> o.confidence,
                       rationale |-> o.rationaleText])
    IN [js EXCEPT !.outcomes = out, !.k = js.k + 1, !.judgePair = NoRow,
                  !.narrativeDiff = NoRow, !.judgment = NoRow,
                  !.pc = IF js.k + 1 <= Len(js.pairs) THEN "find" ELSE "done"]

\* db.inTransaction after Statement.run(): outside db.transaction() the
\* statement commits on its own, inside one it leaves the transaction open
StatementRun(inTransaction) == inTransaction

\* judge.ts 23-85: options, the run --run names, its completed attempts (at
\* least two)
JudgeStart(j, model, promptVersion) ==
    /\ judge[j].pc = "idle"
    /\ \E run \in bbonRuns :
          LET completed == CompletedAttempts(attempts, run.id)
          IN judge' = [judge EXCEPT ![j] =
             IF Cardinality(completed) < 2
             THEN [@ EXCEPT !.pc = "failed", !.runId = run.id]
             ELSE [@ EXCEPT !.pc = "find", !.model = model, !.runId = run.id,
                            !.promptVersion = promptVersion,
                            !.pairs = GeneratePairs(completed),
                            !.cachedAtStart = PairsWithOutcome]]
    /\ UNCHANGED bbonTables
    /\ UNCHANGED notJudge

\* judge.ts 96-105: look the pair up among the stored pairs of the run
JudgeFindPair(j) ==
    /\ judge[j].pc = "find"
    /\ LET found == FindExistingPair(judgePairs, judge[j].runId, CurrentPair(j))
       IN judge' = [judge EXCEPT ![j] =
             [@ EXCEPT !.judgePair = found,
                       !.pc = IF found = NoRow THEN "add" ELSE "check"]]
    /\ UNCHANGED bbonTables
    /\ UNCHANGED notJudge

\* judge.ts 107-114: addJudgePair; when the insert is ignored and no row has
\* the derived id, the returned pair is null and reading its id throws
JudgeAddPair(j) ==
    /\ judge[j].pc = "add"
    /\ LET input == [runId |-> judge[j].runId,
                     leftAttemptId |-> CurrentPair(j).leftAttemptId,
                     rightAttemptId |-> CurrentPair(j).rightAttemptId,
                     promptVersion |-> judge[j].promptVersion]
           rows == addJudgePair(judgePairs, input)
           row == getJudgePair(rows, deterministicId(input))
       IN /\ judgePairs' = rows
          /\ judge' = [judge EXCEPT ![j] =
                [@ EXCEPT !.judgePair = row,
                          !.inTransaction = StatementRun(@),
                          !.pc = IF row = NoRow THEN "failed" ELSE "check"]]
    /\ UNCHANGED <<bbonRuns, attempts, attemptSteps, judgeOutcomes>>
    /\ UNCHANGED notJudge

\* judge.ts 116-135: a stored outcome of the pair is reused
JudgeCacheHit(j) ==
    /\ judge[j].pc = "check"
    /\ LET existing == getJudgeOutcomeByPairId(judgeOutcomes, judge[j].judgePair.id)
       IN /\ existing # NoRow
          /\ judge' = [judge EXCEPT ![j] = PushOutcome(j, judge[j].judgePair, existing)]
    /\ UNCHANGED bbonTables
    /\ UNCHANGED notJudge

\* comparativeJudge.ts buildJudgePrompt: a prompt is built for version v1
\* only; any other version throws `Unknown prompt version`
buildJudgePrompt(promptVersion) == promptVersion = "v1"

\* judge.ts 116-151, compareAttempts 38-55: no stored outcome: read the two
\* attempts and their steps, build the diff and the prompt, then call the
\* LLM; when no prompt can be built the error leaves the driver before any
\* call is made
JudgeCacheMiss(j) ==
    /\ judge[j].pc = "check"
    /\ getJudgeOutcomeByPairId(judgeOutcomes, judge[j].judgePair.id) = NoRow
    /\ LET leftAttempt == getAttempt(attempts, CurrentPair(j).leftAttemptId)
           rightAttempt == getAttempt(attempts, CurrentPair(j).rightAttemptId)
           narrativeDiff ==
               generateNarrativeDiff(leftAttempt, rightAttempt,
                                     listAttemptSteps(attemptSteps, leftAttempt.id),
                                     listAttemptSteps(attemptSteps, rightAttempt.id))
       IN judge' = [judge EXCEPT ![j] =
             IF buildJudgePrompt(judge[j].promptVersion)
             THEN [@ EXCEPT !.pc = "llm", !.narrativeDiff = narrativeDiff,
                            !.called = @ \cup {UnorderedPair(CurrentPair(j))}]
             ELSE [@ EXCEPT !.pc = "failed"]]
    /\ UNCHANGED bbonTables
    /\ UNCHANGED notJudge

\* judge.ts 151-154, compareAttempts: the LLM answers; an answer that does
\* not parse throws out of the driver
JudgeLLMReturn(j, response) ==
    /\ judge[j].pc = "llm"
    /\ LET judgment == parseJudgmentResponse(response, CurrentPair(j).leftAttemptId,
                                             CurrentPair(j).rightAttemptId)
       IN judge' = [judge EXCEPT ![j] =
             IF judgment = NoRow
             THEN [@ EXCEPT !.pc = "failed"]
             ELSE [@ EXCEPT !.pc = "persist", !.judgment = judgment,
                            !.answered = Append(@, UnorderedPair(CurrentPair(j)))]]
    /\ UNCHANGED bbonTables
    /\ UNCHANGED notJudge

\* compareAttempts throws (transport error, unparsable answer)
JudgeLLMFail(j) ==
    /\ judge[j].pc = "llm"
    /\ judge' = [judge EXCEPT ![j] = [@ EXCEPT !.pc = "failed"]]
    /\ UNCHANGED bbonTables
    /\ UNCHANGED notJudge

\* judge.ts 156-183: addJudgeOutcome with the judgment and the diff the
\* prompt was built from, push it, next pair
JudgePersist(j) ==
    /\ judge[j].pc = "persist"
    /\ LET js == judge[j]
           input == [pairId |-> js.judgePair.id,
                     winnerAttemptId |-> js.judgment.winnerAttemptId,
                     confidence |-> js.judgment.confidence,
                     rationaleText |-> js.judgment.rationale,
                     narrativeDiff |-> js.narrativeDiff,
                     model |-> js.model]
       IN /\ judgeOutcomes' = addJudgeOutcome(judgeOutcomes, input)
          /\ judge' = [judge EXCEPT ![j] =
                [PushOutcome(j, js.judgePair, input)
                    EXCEPT !.inTransaction = StatementRun(@)]]
    /\ UNCHANGED <<bbonRuns, attempts, attemptSteps, judgePairs>>
    /\ UNCHANGED notJudge

NextJudge ==
    \/ \E j \in 1..MaxJudges, m \in Models, pv \in PromptVersions : JudgeStart(j, m, pv)
    \/ \E j \in 1..MaxJudges : JudgeFindPair(j)
    \/ \E j \in 1..MaxJudges : JudgeAddPair(j)
    \/ \E j \in 1..MaxJudges : JudgeCacheHit(j)
    \/ \E j \in 1..MaxJudges : JudgeCacheMiss(j)
    \/ \E j \in 1..MaxJudges, r \in LLMResponses : JudgeLLMReturn(j, r)
    \/ \E j \in 1..MaxJudges : JudgeLLMFail(j)
    \/ \E j \in 1..MaxJudges : JudgePersist(j)

\* run.ts 131-137, 201-206: the attempt row of the input after the
\* invocations whose learn calls ended as `outcomes` lists (each returned one
\* of `results` or threw the error whose message the outcome is): the first
\* invocation inserted the row, every one wrote its status, result and
\* completedAt
AttemptAfterRun(input, outcomes, results) ==
    LET last == outcomes[Len(outcomes)]
    IN [id |-> deterministicId(input), runId |-> input.runId, ordinal |-> input.ordinal,
        status |-> IF last \in DOMAIN results THEN "completed" ELSE "failed",
        result |-> IF last \in DOMAIN results THEN results[last] ELSE "{}",
        completedAt |-> Now]

\* run.ts 154-194: the steps one invocation adds for an attempt: reflect at
\* index 0, then learn_complete at index 1 or, when learnCommand threw, error
\* at index 0 with the message of the error as observation
StepsOfAttempt(rows, attemptId, outcome, results) ==
    LET s0 == addAttemptStep(rows, [attemptId |-> attemptId, stepIndex |-> 0,
                                    kind |-> "reflect", input |-> "{task}",
                                    output |-> "{}", observation |-> "{}"])
    IN IF outcome \in DOMAIN results
       THEN addAttemptStep(s0, [attemptId |-> attemptId, stepIndex |-> 1,
                                kind |-> "learn_complete", input |-> "{}",
                                output |-> results[outcome], observation |-> "{}"])
       ELSE addAttemptStep(s0, [attemptId |-> attemptId, stepIndex |-> 0,
                                kind |-> "error", input |-> "{}",
                                output |-> "{}", observation |-> outcome])

\* run.ts 130-218 over the invocations of `bbon run` with one seed: each goes
\* through the ordinals in order (m counts the attempts gone through);
\* history[i] lists what the learn call of ordinal i - 1 did in each
\* invocation, results[i] what it returned
RECURSIVE StepsAfterRun(_, _, _, _, _)
StepsAfterRun(rows, inputs, history, results, m) ==
    LET n == Len(inputs)
        i == (m % n) + 1
        k == (m \div n) + 1
    IN IF m = n * Len(history[1]) THEN rows
       ELSE StepsAfterRun(StepsOfAttempt(rows, deterministicId(inputs[i]), history[i][k],
                                         results[i]),
                          inputs, history, results, m + 1)

\* the messages of the errors learnCommand throws: the argument is no number
\* (part_010 43-46), .ace/ace.db is not there (part_010 87-99)
ValidationFailed == "Validation failed"
CurateFailed == "Curate step failed: Database not initialized"

\* `bbon run` was invoked twice with the same seed, so both invocations worked
\* on the same attempts: the learn call of an attempt returned the same
\* result twice (the second invocation added no step), threw and then
\* returned, returned two results, threw the same error twice (the second
\* error step has the id of the first), or threw two errors
RunHistories == {<<"returned", "returned">>, <<CurateFailed, "returned">>,
                 <<"returned", "returnedOther">>, <<CurateFailed, CurateFailed>>,
                 <<ValidationFailed, CurateFailed>>}
RunResults == [returned |-> "learnResultA", returnedOther |-> "learnResultB"]

\* The store after `bbon run --n MaxN --seed 42` returned twice: every ordinal
\* has an attempt that is completed or failed, with its steps
AttemptInput(i) == [runId |-> JudgedRun, ordinal |-> i, status |-> "pending", result |-> "{}"]

InitJudgeTables ==
    /\ bbonRuns = addBbonRun({}, BbonRunInput(MaxN, SeedOf("42", 0)))
    /\ \E history \in [1..MaxN -> RunHistories] :
          LET inputs == [i \in 1..MaxN |-> AttemptInput(i - 1)]
          IN /\ attempts = {AttemptAfterRun(inputs[i], history[i], RunResults)
                               : i \in 1..MaxN}
             /\ attemptSteps = StepsAfterRun({}, inputs, history,
                                             [i \in 1..MaxN |-> RunResults], 0)
    /\ judgePairs = {}
    /\ judgeOutcomes = {}

-----------------------------------------------------------------------------
(* C2, C3, C4 *)

\* C2 (as claimed): in every reachable state each JudgePair has at most one
\* JudgeOutcome row, also when judge invocations interleave.
C2_OneOutcomePerPair ==
    \A p \in judgePairs : Cardinality({o \in judgeOutcomes : o.pairId = p.id}) <= 1

\* C3: for any run and unordered attempt pair at most one JudgePair row
\* exists, counting both orientations.
C3_OnePairRowPerUnorderedPair ==
    \A p, q \in judgePairs :
        (p.runId = q.runId /\ UnorderedPair(p) = UnorderedPair(q)) => p = q

\* C3 witness: an invocation dealt with a pair that is stored under another
\* prompt version (a second row would have another derived id).
C3_Witness ==
    \E j \in 1..MaxJudges, p \in judgePairs :
        /\ judge[j].pc \in {"check", "failed", "done"}
        /\ judge[j].promptVersion \notin {Null, p.promptVersion}
        /\ judge[j].pairs # <<>>

\* C4: an invocation makes no LLM call for a pair whose outcome was stored
\* when it started, and what it returns for such a pair is a stored outcome
\* of that pair.
C4_JudgeCache ==
    \A j \in 1..MaxJudges :
        /\ judge[j].called \cap judge[j].cachedAtStart = {}
        /\ judge[j].pc = "done" =>
              /\ Len(judge[j].outcomes) = Len(judge[j].pairs)
              /\ \A i \in 1..Len(judge[j].pairs) :
                    UnorderedPair(judge[j].outcomes[i]) = UnorderedPair(judge[j].pairs[i])
        /\ \A i \in 1..Len(judge[j].outcomes) :
              LET o == judge[j].outcomes[i] IN
              UnorderedPair(o) \in judge[j].cachedAtStart =>
                  \E row \in judgeOutcomes :
                      /\ row.pairId = o.pairId
                      /\ row.winnerAttemptId = o.winnerAttemptId
                      /\ row.confidence = o.confidence

\* C4 witness: a re-run returned after every pair had a stored outcome
C4_Witness ==
    \E j \in 1..MaxJudges :
        /\ judge[j].pc = "done"
        /\ judge[j].cachedAtStart # {}
        /\ \A i \in 1..Len(judge[j].pairs) :
              UnorderedPair(judge[j].pairs[i]) \in judge[j].cachedAtStart

-----------------------------------------------------------------------------
(* Migration engine: store/migrations.ts and the scripts of store/migrations *)

\* The scripts in version order (loadMigrations sorts by the number in the file
\* name).  A script creates its tables with IF NOT EXISTS; 0001 and 0002 end
\* with INSERT INTO schema_version (their own version), 0003 has no such
\* statement.
loadMigrations ==
    << [version |-> 1, creates |-> {"knowledge_items", "insights", "runs", "schema_version"},
        recordsVersion |-> TRUE],
       [version |-> 2, creates |-> {"tasks", "bbon_runs", "attempts", "attempt_steps",
                                    "judge_pairs", "judge_outcomes"},
        recordsVersion |-> TRUE],
       [version |-> 3, creates |-> {"memory_short_term", "working_memory", "memory_events"},
        recordsVersion |-> FALSE] >>

RECURSIVE MaxOf(_)
MaxOf(S) == IF S = {} THEN 0
            ELSE LET x == CHOOSE y \in S : TRUE
                     m == MaxOf(S \ {x})
                 IN IF x > m THEN x ELSE m

\* SELECT MAX(version) FROM schema_version; 0 when the table is empty or missing
getCurrentVersion(tables, versions) ==
    IF "schema_version" \notin tables THEN 0 ELSE MaxOf(versions)

\* db.exec(migration.sql): the statements in order.  The INSERT fails when
\* schema_version does not exist or already holds the version (PRIMARY KEY).
ExecScript(m, tables, versions) ==
    LET t2 == tables \cup m.creates IN
    IF ~m.recordsVersion
    THEN [ok |-> TRUE, tables |-> t2, versions |-> versions]
    ELSE IF "schema_version" \notin t2 \/ m.version \in versions
         THEN [ok |-> FALSE, tables |-> t2, versions |-> versions]
         ELSE [ok |-> TRUE, tables |-> t2, versions |-> versions \cup {m.version}]

\* a mutant of applyMigration: db.exec(migration.sql) outside a transaction
applyMigration_NoTransaction(m, tables, versions) == ExecScript(m, tables, versions)

\* applyMigration: the script inside db.transaction; a throw rolls everything back
applyMigration(m, tables, versions) ==
    LET r == ExecScript(m, tables, versions) IN
    IF r.ok THEN r ELSE [ok |-> FALSE, tables |-> tables, versions |-> versions]

\* migrations.filter(m => m.version > currentVersion)
RECURSIVE PendingFrom(_, _)
PendingFrom(ms, currentVersion) ==
    IF ms = <<>> THEN <<>>
    ELSE IF Head(ms).version > currentVersion
         THEN <<Head(ms)>> \o PendingFrom(Tail(ms), currentVersion)
         ELSE PendingFrom(Tail(ms), currentVersion)

\* runMigrations 96-98: the pending scripts one after the other; the first
\* script that fails throws out of the loop
RECURSIVE ApplyPending(_, _, _)
ApplyPending(pending, tables, versions) ==
    IF pending = <<>> THEN [ok |-> TRUE, tables |-> tables, versions |-> versions]
    ELSE LET r == applyMigration(Head(pending), tables, versions)
         IN IF r.ok THEN ApplyPending(Tail(pending), r.tables, r.versions) ELSE r

\* runMigrations as one call: what it leaves in the database and returns
runMigrations(tables, versions) ==
    LET pending == PendingFrom(loadMigrations, getCurrentVersion(tables, versions))
        r == ApplyPending(pending, tables, versions)
    IN [ok |-> r.ok, tables |-> r.tables, versions |-> r.versions,
        applied |-> Len(pending), current |-> getCurrentVersion(r.tables, r.versions)]

\* needsMigration: current < latest known version
needsMigration(tables, versions) ==
    /\ Len(loadMigrations) # 0
    /\ getCurrentVersion(tables, versions)
          < MaxOf({loadMigrations[i].version : i \in 1..Len(loadMigrations)})

IdleMig == [pc |-> "idle", pending |-> <<>>, k |-> 1]

\* an entry of the call log
MigEntry(op, ok, version, applied, current) ==
    [op |-> op, ok |-> ok, version |-> version, applied |-> applied, current |-> current]

\* a database file initDatabase just created: no tables
InitMigVars ==
    /\ dbTables = {}
    /\ schemaVersion = {}
    /\ mig = IdleMig
    /\ migLog = <<>>

\* runMigrations, lines 91-94: read the current version, select the pending scripts
MigrateStart ==
    /\ mig.pc = "idle"
    /\ Len(migLog) < MaxMigrateCalls
    /\ mig' = [pc |-> "loop",
               pending |-> PendingFrom(loadMigrations,
                                       getCurrentVersion(dbTables, schemaVersion)),
               k |-> 1]
    /\ UNCHANGED <<dbTables, schemaVersion, migLog>>
    /\ UNCHANGED notMig

\* runMigrations, lines 96-98: apply the next pending script; a failing script
\* throws out of runMigrations
MigrateApply ==
    /\ mig.pc = "loop"
    /\ mig.k <= Len(mig.pending)
    /\ LET r == applyMigration(mig.pending[mig.k], dbTables, schemaVersion) IN
       /\ dbTables' = r.tables
       /\ schemaVersion' = r.versions
       /\ IF r.ok
          THEN /\ mig' = [mig EXCEPT !.k = @ + 1]
               /\ UNCHANGED migLog
          ELSE /\ mig' = IdleMig
               /\ migLog' = Append(migLog, MigEntry("runMigrations", FALSE, 0, 0, 0))
    /\ UNCHANGED notMig

\* db.exec throws part-way through the script (disk full, I/O error): the
\* transaction rolls back and the error leaves runMigrations
MigrateScriptError ==
    /\ mig.pc = "loop"
    /\ mig.k <= Len(mig.pending)
    /\ mig' = IdleMig
    /\ migLog' = Append(migLog, MigEntry("runMigrations", FALSE, 0, 0, 0))
    /\ UNCHANGED <<dbTables, schemaVersion>>
    /\ UNCHANGED notMig

\* runMigrations, lines 100-105: applied = pending.length, current re-read
MigrateReturn ==
    /\ mig.pc = "loop"
    /\ mig.k > Len(mig.pending)
    /\ migLog' = Append(migLog, MigEntry("runMigrations", TRUE, 0, Len(mig.pending),
                                         getCurrentVersion(dbTables, schemaVersion)))
    /\ mig' = IdleMig
    /\ UNCHANGED <<dbTables, schemaVersion>>
    /\ UNCHANGED notMig

\* applyMigration called on its own with one of the loaded scripts
ApplyMigrationCall(i) ==
    /\ mig.pc = "idle"
    /\ Len(migLog) < MaxMigrateCalls
    /\ LET r == applyMigration(loadMigrations[i], dbTables, schemaVersion) IN
       /\ dbTables' = r.tables
       /\ schemaVersion' = r.versions
       /\ migLog' = Append(migLog, MigEntry("applyMigration", r.ok, loadMigrations[i].version,
                                            0, getCurrentVersion(r.tables, r.versions)))
    /\ UNCHANGED mig
    /\ UNCHANGED notMig

NextMigrate ==
    \/ MigrateStart
    \/ MigrateApply
    \/ MigrateScriptError
    \/ MigrateReturn
    \/ \E i \in 1..Len(loadMigrations) : ApplyMigrationCall(i)

-----------------------------------------------------------------------------
(* C5 *)

\* C5 (as claimed): when runMigrations returns twice in a row on one database,
\* the second call reports applied = 0 and the same current version.
C5_MigrationMonotonicity ==
    \A i \in 1..(Len(migLog) - 1) :
        ( /\ migLog[i].op = "runMigrations" /\ migLog[i].ok
          /\ migLog[i + 1].op = "runMigrations" /\ migLog[i + 1].ok )
        => /\ migLog[i + 1].applied = 0
           /\ migLog[i + 1].current = migLog[i].current

-----------------------------------------------------------------------------
(* Repository: knowledge items, insights and memory (store/repository.ts)   *)
(* confidence is kept in tenths: 8 stands for 0.8                            *)

KnowledgeTypes == {"fact", "pattern", "procedure", "decision"}

\* Creation inputs of knowledge items: two valid ones with zero counters and
\* one the schema rejects (confidence 1.1)
KnowledgeInputs ==
    { [type |-> "pattern", text |-> "cache results", scope |-> "repo",
       confidence |-> 9, helpful |-> 0, harmful |-> 0],
      [type |-> "pattern", text |-> "retry flaky calls", scope |-> "repo",
       confidence |-> 5, helpful |-> 0, harmful |-> 0],
      [type |-> "fact", text |-> "cache results", scope |-> "repo",
       confidence |-> 11, helpful |-> 0, harmful |-> 0] }

\* KnowledgeItemSchema.parse
KnowledgeItemSchema(item) ==
    /\ item.type \in KnowledgeTypes
    /\ item.text # ""
    /\ item.scope # ""
    /\ item.confidence >= 0 /\ item.confidence <= 10
    /\ item.helpful >= 0
    /\ item.harmful >= 0

\* CHECK constraints of knowledge_items
KnowledgeItemChecks(row) ==
    /\ row.type \in KnowledgeTypes
    /\ row.confidence >= 0 /\ row.confidence <= 10
    /\ row.helpful >= 0
    /\ row.harmful >= 0

getKnowledgeItem(rows, id) ==
    IF \E r \in rows : r.id = id THEN CHOOSE r \in rows : r.id = id ELSE NoRow

\* a mutant of addKnowledgeItem: the id is not derived from the inputs alone
addKnowledgeItem_FreshId(rows, item) ==
    rows \cup {[id |-> deterministicId(<<item, Cardinality(rows)>>), type |-> item.type,
                text |-> item.text, scope |-> item.scope, confidence |-> item.confidence,
                helpful |-> item.helpful, harmful |-> item.harmful,
                createdAt |-> Now, updatedAt |-> Now]}

\* addKnowledgeItem: INSERT OR IGNORE under the derived id; the table afterwards
addKnowledgeItem(rows, item) ==
    LET id == deterministicId(item) IN
    IF \E r \in rows : r.id = id
    THEN rows
    ELSE rows \cup {[id |-> id, type |-> item.type, text |-> item.text,
                     scope |-> item.scope, confidence |-> item.confidence,
                     helpful |-> item.helpful, harmful |-> item.harmful,
                     createdAt |-> Now, updatedAt |-> Now]}

\* a mutant of updateKnowledgeItemFeedback: the counters are assigned
updateKnowledgeItemFeedback_Assign(rows, id, helpfulDelta, harmfulDelta) ==
    LET upd(r) == IF r.id = id
                  THEN [r EXCEPT !.helpful = helpfulDelta, !.harmful = harmfulDelta,
                                 !.updatedAt = Now]
                  ELSE r
        new == {upd(r) : r \in rows}
    IN IF \A r \in new : KnowledgeItemChecks(r)
       THEN [ok |-> TRUE, rows |-> new]
       ELSE [ok |-> FALSE, rows |-> rows]

\* a mutant of updateKnowledgeItemFeedback: the table has no CHECK constraints
updateKnowledgeItemFeedback_NoCheck(rows, id, helpfulDelta, harmfulDelta) ==
    [ok |-> TRUE,
     rows |-> {IF r.id = id
               THEN [r EXCEPT !.helpful = @ + helpfulDelta, !.harmful = @ + harmfulDelta,
                              !.updatedAt = Now]
               ELSE r : r \in rows}]

\* updateKnowledgeItemFeedback: one UPDATE adding the deltas; a row that would
\* break a CHECK constraint makes the statement fail and changes nothing
updateKnowledgeItemFeedback(rows, id, helpfulDelta, harmfulDelta) ==
    LET upd(r) == IF r.id = id
                  THEN [r EXCEPT !.helpful = @ + helpfulDelta,
                                 !.harmful = @ + harmfulDelta,
                                 !.updatedAt = Now]
                  ELSE r
        new == {upd(r) : r \in rows}
    IN IF \A r \in new : KnowledgeItemChecks(r)
       THEN [ok |-> TRUE, rows |-> new]
       ELSE [ok |-> FALSE, rows |-> rows]

deleteKnowledgeItem(rows, id) == {r \in rows : r.id # id}

\* Creation inputs of insights; pattern and description are lists of words
InsightInputs ==
    { [pattern |-> <<"Always", "retry">>, description |-> <<"flaky", "calls">>,
       confidence |-> 9, frequency |-> 2],
      [pattern |-> <<"cache">>, description |-> <<"must", "expire">>,
       confidence |-> 8, frequency |-> 1],
      [pattern |-> <<"logs">>, description |-> <<"are", "noisy">>,
       confidence |-> 5, frequency |-> 1] }

\* InsightSchema.parse
InsightSchema(insight) ==
    /\ insight.pattern # <<>>
    /\ insight.description # <<>>
    /\ insight.confidence >= 0 /\ insight.confidence <= 10
    /\ insight.frequency >= 1

\* addInsight: INSERT OR IGNORE under the derived id; the table afterwards
addInsight(rows, insight) ==
    LET id == deterministicId(insight) IN
    IF \E r \in rows : r.id = id
    THEN rows
    ELSE rows \cup {[id |-> id, pattern |-> insight.pattern,
                     description |-> insight.description,
                     confidence |-> insight.confidence,
                     frequency |-> insight.frequency, createdAt |-> Now]}

getInsight(rows, id) ==
    IF \E r \in rows : r.id = id THEN CHOOSE r \in rows : r.id = id ELSE NoRow

\* rows of the runs table the memory_short_term foreign key can refer to
ExistingRuns == {"run-1"}

ShortTermEntries ==
    { [runId |-> "run-1", key |-> "plan", value |-> "v1"],
      [runId |-> "run-1", key |-> "plan", value |-> "v2"],
      [runId |-> "run-2", key |-> "plan", value |-> "v1"] }

\* upsertShortTermMemory: INSERT ... ON CONFLICT(run_id, key) DO UPDATE SET
\* value_json; the foreign key needs the run (foreign_keys = ON)
upsertShortTermMemory(rows, entry) ==
    IF entry.runId \notin ExistingRuns
    THEN [ok |-> FALSE, rows |-> rows]
    ELSE IF \E r \in rows : r.runId = entry.runId /\ r.key = entry.key
         THEN [ok |-> TRUE,
               rows |-> {IF r.runId = entry.runId /\ r.key = entry.key
                         THEN [r EXCEPT !.value = entry.value] ELSE r : r \in rows}]
         ELSE [ok |-> TRUE,
               rows |-> rows \cup {[id |-> deterministicId([runId |-> entry.runId,
                                                            key |-> entry.key]),
                                    runId |-> entry.runId, key |-> entry.key,
                                    value |-> entry.value, createdAt |-> Now]}]

clearShortTermMemory(rows, runId) == {r \in rows : r.runId # runId}

\* an entry of the Repository call log: the call, whether it returned, what it
\* returned, whether it changed a row and the size of its table afterwards
RepoEntry(op, arg, ok, ret, changed, count) ==
    [op |-> op, arg |-> arg, ok |-> ok, ret |-> ret, changed |-> changed, count |-> count]

InitStoreEmpty ==
    /\ knowledgeItems = {}
    /\ insights = {}
    /\ shortTermMemory = {}
    /\ workingMemory = {}
    /\ memoryEvents = {}
    /\ auditLog = <<>>

InitRepoLog == repoLog = <<>>

AddKnowledgeItem(item) ==
    /\ Len(repoLog) < MaxRepoCalls
    /\ IF KnowledgeItemSchema(item)
       THEN LET new == addKnowledgeItem(knowledgeItems, item) IN
            /\ knowledgeItems' = new
            /\ repoLog' = Append(repoLog,
                  RepoEntry("addKnowledgeItem", item, TRUE,
                            IF new # knowledgeItems
                            THEN deterministicId(item)
                            ELSE getKnowledgeItem(knowledgeItems, deterministicId(item)).id,
                            new # knowledgeItems, Cardinality(new)))
       ELSE /\ UNCHANGED knowledgeItems
            /\ repoLog' = Append(repoLog,
                  RepoEntry("addKnowledgeItem", item, FALSE, Null, FALSE,
                            Cardinality(knowledgeItems)))
    /\ UNCHANGED <<insights, shortTermMemory, workingMemory, memoryEvents, auditLog>>
    /\ UNCHANGED notRepo

UpdateKnowledgeItemFeedback(id, helpfulDelta, harmfulDelta) ==
    /\ Len(repoLog) < MaxRepoCalls
    /\ LET r == updateKnowledgeItemFeedback(knowledgeItems, id, helpfulDelta, harmfulDelta) IN
       /\ knowledgeItems' = r.rows
       /\ repoLog' = Append(repoLog,
             RepoEntry("updateKnowledgeItemFeedback",
                       [id |-> id, helpfulDelta |-> helpfulDelta, harmfulDelta |-> harmfulDelta],
                       r.ok, Null, r.rows # knowledgeItems, Cardinality(r.rows)))
    /\ UNCHANGED <<insights, shortTermMemory, workingMemory, memoryEvents, auditLog>>
    /\ UNCHANGED notRepo

DeleteKnowledgeItem(id) ==
    /\ Len(repoLog) < MaxRepoCalls
    /\ LET new == deleteKnowledgeItem(knowledgeItems, id) IN
       /\ knowledgeItems' = new
       /\ repoLog' = Append(repoLog,
             RepoEntry("deleteKnowledgeItem", id, TRUE, Null,
                       new # knowledgeItems, Cardinality(new)))
    /\ UNCHANGED <<insights, shortTermMemory, workingMemory, memoryEvents, auditLog>>
    /\ UNCHANGED notRepo

AddInsight(insight) ==
    /\ Len(repoLog) < MaxRepoCalls
    /\ IF InsightSchema(insight)
       THEN LET new == addInsight(insights, insight) IN
            /\ insights' = new
            /\ repoLog' = Append(repoLog,
                  RepoEntry("addInsight", insight, TRUE,
                            IF new # insights
                            THEN deterministicId(insight)
                            ELSE getInsight(insights, deterministicId(insight)).id,
                            new # insights, Cardinality(new)))
       ELSE /\ UNCHANGED insights
            /\ repoLog' = Append(repoLog,
                  RepoEntry("addInsight", insight, FALSE, Null, FALSE,
                            Cardinality(insights)))
    /\ UNCHANGED <<knowledgeItems, shortTermMemory, workingMemory, memoryEvents, auditLog>>
    /\ UNCHANGED notRepo

UpsertShortTermMemory(entry) ==
    /\ Len(repoLog) < MaxRepoCalls
    /\ LET r == upsertShortTermMemory(shortTermMemory, entry) IN
       /\ shortTermMemory' = r.rows
       /\ repoLog' = Append(repoLog,
             RepoEntry("upsertShortTermMemory", entry, r.ok,
                       IF r.ok THEN deterministicId([runId |-> entry.runId, key |-> entry.key])
                       ELSE Null,
                       r.rows # shortTermMemory, Cardinality(r.rows)))
    /\ UNCHANGED <<knowledgeItems, insights, workingMemory, memoryEvents, auditLog>>
    /\ UNCHANGED notRepo

ClearShortTermMemory(runId) ==
    /\ Len(repoLog) < MaxRepoCalls
    /\ LET new == clearShortTermMemory(shortTermMemory, runId) IN
       /\ shortTermMemory' = new
       /\ repoLog' = Append(repoLog,
             RepoEntry("clearShortTermMemory", runId, TRUE, Null,
                       new # shortTermMemory, Cardinality(new)))
    /\ UNCHANGED <<knowledgeItems, insights, workingMemory, memoryEvents, auditLog>>
    /\ UNCHANGED notRepo

\* upsertWorkingMemory: INSERT ... ON CONFLICT(id) DO UPDATE SET content_text,
\* provenance_json, updated_at; the id is derived from project, type and text.
\* A new row gets the next rowid, an updated row keeps its own.
upsertWorkingMemory(rows, entry, now) ==
    LET id == deterministicId([projectId |-> entry.projectId, type |-> entry.type,
                               contentText |-> entry.contentText])
    IN IF \E r \in rows : r.id = id
       THEN {IF r.id = id
             THEN [r EXCEPT !.contentText = entry.contentText,
                            !.provenance = entry.provenance, !.updatedAt = now]
             ELSE r : r \in rows}
       ELSE rows \cup {[id |-> id, projectId |-> entry.projectId, type |-> entry.type,
                        contentText |-> entry.contentText,
                        provenance |-> entry.provenance, updatedAt |-> now,
                        rowid |-> MaxOf({r.rowid : r \in rows}) + 1]}

\* WorkingMemorySchema.parse on the entry of the caller
WorkingMemoryTypes == {"summary", "invariant", "decision"}
WorkingMemorySchema(entry) == entry.type \in WorkingMemoryTypes

\* Repository.deleteWorkingMemory: DELETE FROM working_memory WHERE id = ?
deleteWorkingMemory(rows, id) == {r \in rows : r.id # id}

\* the entries upsertWorkingMemory is called with: two with the same content
\* and different provenance, and one the schema rejects
WorkingMemoryEntries ==
    { [projectId |-> ".", type |-> "summary", contentText |-> "cache results",
       provenance |-> [source |-> "insight"]],
      [projectId |-> ".", type |-> "summary", contentText |-> "cache results",
       provenance |-> [source |-> "manual"]],
      [projectId |-> ".", type |-> "note", contentText |-> "cache results",
       provenance |-> [source |-> "manual"]] }

WorkingMemoryId(entry) ==
    deterministicId([projectId |-> entry.projectId, type |-> entry.type,
                     contentText |-> entry.contentText])

UpsertWorkingMemory(entry) ==
    /\ Len(repoLog) < MaxRepoCalls
    /\ IF WorkingMemorySchema(entry)
       THEN LET new == upsertWorkingMemory(workingMemory, entry, clock) IN
            /\ workingMemory' = new
            /\ repoLog' = Append(repoLog,
                  RepoEntry("upsertWorkingMemory", entry, TRUE, WorkingMemoryId(entry),
                            new # workingMemory, Cardinality(new)))
       ELSE /\ UNCHANGED workingMemory
            /\ repoLog' = Append(repoLog,
                  RepoEntry("upsertWorkingMemory", entry, FALSE, Null, FALSE,
                            Cardinality(workingMemory)))
    /\ UNCHANGED <<knowledgeItems, insights, shortTermMemory, memoryEvents, auditLog>>
    /\ UNCHANGED notRepo

DeleteWorkingMemory(id) ==
    /\ Len(repoLog) < MaxRepoCalls
    /\ LET new == deleteWorkingMemory(workingMemory, id) IN
       /\ workingMemory' = new
       /\ repoLog' = Append(repoLog,
             RepoEntry("deleteWorkingMemory", id, TRUE, Null,
                       new # workingMemory, Cardinality(new)))
    /\ UNCHANGED <<knowledgeItems, insights, shortTermMemory, memoryEvents, auditLog>>
    /\ UNCHANGED notRepo

\* adapters/jsonl.ts.  The audit log is a set of files, each a sequence of
\* lines; a line is kept as the entry JSON.parse reads back from it.
LinesOf(log, path) == IF path \in DOMAIN log THEN log[path] ELSE <<>>

\* appendFileSync: the file is created when it is not there
appendFileSync(log, path, lines) ==
    [p \in DOMAIN log \cup {path} |-> IF p = path THEN LinesOf(log, path) \o lines ELSE log[p]]

\* appendJsonl: one line
appendJsonl(log, path, data) == appendFileSync(log, path, <<data>>)

\* appendJsonlBatch: the lines of all entries in a single append
appendJsonlBatch(log, path, entries) == appendFileSync(log, path, entries)

\* new Date(): instant t of a behaviour is the wall-clock time t milliseconds
\* after 2026-01-01T23:59:59.998Z, so the instants of a behaviour lie in two
\* seconds of two days
MsOfSecond(now) == (998 + now) % 1000
AfterMidnight(now) == 998 + now >= 1000
ISODate(now) == IF AfterMidnight(now) THEN "2026-01-02" ELSE "2026-01-01"
ISOTime(now) == IF AfterMidnight(now) THEN "00:00:00" ELSE "23:59:59"

\* String.padStart(3, '0') of the decimal digits of a number below 1000
padStart(n) ==
    IF n < 10 THEN "00" \o NumberToString(n)
    ELSE IF n < 100 THEN "0" \o NumberToString(n) ELSE NumberToString(n)

\* Date.toISOString
toISOString(now) ==
    ISODate(now) \o "T" \o ISOTime(now) \o "." \o padStart(MsOfSecond(now)) \o "Z"

\* appendAuditEntry: the entry {timestamp, type, data} of this instant
appendAuditEntry(log, path, type, data, now) ==
    appendJsonl(log, path, [timestamp |-> toISOString(now), type |-> type, data |-> data])

\* SnapshotWriter.writeSnapshot: the file is named by the type and the instant
\* of the call: the ISO timestamp with `:` replaced by `-` and the fraction
\* cut off, then the milliseconds
SnapshotPath(type, now) ==
    "snapshots/" \o type \o "_" \o ISODate(now) \o "T"
        \o (IF AfterMidnight(now) THEN "00-00-00" ELSE "23-59-59")
        \o "-" \o padStart(MsOfSecond(now)) \o ".jsonl"
writeSnapshot(log, type, data, now) == appendJsonlBatch(log, SnapshotPath(type, now), data)

\* SnapshotWriter.writeDailySnapshot: the file is named after the type and
\* the day of the call, and the batch is appended to what the file holds
DailySnapshotPath(type, now) == "snapshots/" \o type \o "_" \o ISODate(now) \o ".jsonl"
writeDailySnapshot(log, type, data, now) ==
    appendJsonlBatch(log, DailySnapshotPath(type, now), data)

\* the audit channel, and the entries and batches the writers are called with
AuditPath == "audit.jsonl"
AuditTypes == {"knowledge_item.add"}
AuditDataOf(type) ==
    [type |-> "pattern", text |-> "cache results", scope |-> "repo",
     confidence |-> 9, helpful |-> 0, harmful |-> 0]
JsonlEntries == {[timestamp |-> Now, type |-> t, data |-> AuditDataOf(t)] : t \in AuditTypes}
JsonlBatches == {<<>>} \cup {<<e>> : e \in JsonlEntries}
                \cup {<<e, f>> : e \in JsonlEntries, f \in JsonlEntries}
\* the batches snapshots are taken of
SnapshotBatches == {b \in JsonlBatches : b # <<>>}

RECURSIVE SumLines(_, _)
SumLines(log, paths) ==
    IF paths = {} THEN 0
    ELSE LET p == CHOOSE q \in paths : TRUE
         IN Len(log[p]) + SumLines(log, paths \ {p})

\* the number of lines of the audit log
AuditLines(log) == SumLines(log, DOMAIN log)

AuditFrame == UNCHANGED <<storeTables, repoLog>> /\ UNCHANGED notRepo

\* a millisecond passes
Tick ==
    /\ clock < MaxClock
    /\ clock' = clock + 1
    /\ UNCHANGED <<storeTables, agentsMd, apply, applyLog>>
    /\ UNCHANGED notApply

AppendJsonl(entry) ==
    /\ AuditLines(auditLog) < MaxAuditLines
    /\ auditLog' = appendJsonl(auditLog, AuditPath, entry)
    /\ AuditFrame

AppendJsonlBatch(entries) ==
    /\ AuditLines(auditLog) + Len(entries) <= MaxAuditLines
    /\ auditLog' = appendJsonlBatch(auditLog, AuditPath, entries)
    /\ AuditFrame

AppendAuditEntry(type) ==
    /\ AuditLines(auditLog) < MaxAuditLines
    /\ auditLog' = appendAuditEntry(auditLog, AuditPath, type, AuditDataOf(type), clock)
    /\ AuditFrame

WriteSnapshot(type, entries) ==
    /\ AuditLines(auditLog) + Len(entries) <= MaxAuditLines
    /\ auditLog' = writeSnapshot(auditLog, type, entries, clock)
    /\ AuditFrame

WriteDailySnapshot(type, entries) ==
    /\ AuditLines(auditLog) + Len(entries) <= MaxAuditLines
    /\ auditLog' = writeDailySnapshot(auditLog, type, entries, clock)
    /\ AuditFrame

\* the ids and deltas the feedback and delete calls are made with
KnowledgeIds == {deterministicId(k) : k \in {i \in KnowledgeInputs : KnowledgeItemSchema(i)}}
FeedbackDeltas == {<<1, 0>>, <<0, 2>>, <<-1, -1>>}

NextRepo ==
    \/ \E item \in KnowledgeInputs : AddKnowledgeItem(item)
    \/ \E id \in KnowledgeIds, d \in FeedbackDeltas : UpdateKnowledgeItemFeedback(id, d[1], d[2])
    \/ \E id \in KnowledgeIds : DeleteKnowledgeItem(id)
    \/ \E insight \in InsightInputs : AddInsight(insight)
    \/ \E entry \in ShortTermEntries : UpsertShortTermMemory(entry)
    \/ \E e \in ShortTermEntries : ClearShortTermMemory(e.runId)
    \/ \E entry \in WorkingMemoryEntries : UpsertWorkingMemory(entry)
    \/ \E entry \in WorkingMemoryEntries : DeleteWorkingMemory(WorkingMemoryId(entry))

\* the Repository calls together with the writers of the audit log
NextAudit ==
    \/ Len(repoLog) < MaxAuditCalls /\ NextRepo
    \/ \E entry \in JsonlEntries : AppendJsonl(entry)
    \/ \E entries \in JsonlBatches : AppendJsonlBatch(entries)
    \/ \E type \in AuditTypes : AppendAuditEntry(type)
    \/ \E type \in {"knowledge"}, entries \in SnapshotBatches : WriteSnapshot(type, entries)
    \/ \E type \in {"knowledge"}, entries \in SnapshotBatches : WriteDailySnapshot(type, entries)
    \/ Tick

-----------------------------------------------------------------------------
(* C6, C7, C8 *)

AddOps == {"addKnowledgeItem", "addInsight"}

\* C6: an add call made directly after a returned add call of the same entity
\* with identical creation inputs returns the same id and leaves the row count
\* of the entity's table unchanged.
C6_IdempotentAdd ==
    \A i \in 1..(Len(repoLog) - 1) :
        ( /\ repoLog[i].op \in AddOps /\ repoLog[i].ok
          /\ repoLog[i + 1].op = repoLog[i].op
          /\ repoLog[i + 1].arg = repoLog[i].arg )
        => /\ repoLog[i + 1].ok
           /\ repoLog[i + 1].ret = repoLog[i].ret
           /\ repoLog[i + 1].count = repoLog[i].count

\* C6 witness: the same add was called twice in a row, the first one inserting
C6_Witness ==
    \E i \in 1..(Len(repoLog) - 1) :
        /\ repoLog[i].op \in AddOps /\ repoLog[i].ok /\ repoLog[i].changed
        /\ repoLog[i + 1].op = repoLog[i].op
        /\ repoLog[i + 1].arg = repoLog[i].arg

\* the type of the audit record of a Repository call, "<entity>.<op>"
AuditTypeOf(op) == IF op = "addKnowledgeItem" THEN "knowledge_item.add" ELSE op

\* C7 (as claimed): every Repository mutation that returned and changed a row
\* has a corresponding record in the audit log.
C7_AuditMirror ==
    \A i \in 1..Len(repoLog) :
        (repoLog[i].ok /\ repoLog[i].changed)
        => \E p \in DOMAIN auditLog : \E k \in 1..Len(auditLog[p]) :
              /\ auditLog[p][k].type = AuditTypeOf(repoLog[i].op)
              /\ auditLog[p][k].data = repoLog[i].arg

\* the call that inserted the stored row id (0: none)
InsertedAt(id) ==
    MaxOf({i \in 1..Len(repoLog) :
              /\ repoLog[i].op = "addKnowledgeItem"
              /\ repoLog[i].changed
              /\ repoLog[i].ret = id})

\* the feedback calls made on id since its row was inserted
FeedbackCalls(id) ==
    {i \in (InsertedAt(id) + 1)..Len(repoLog) :
        /\ repoLog[i].op = "updateKnowledgeItemFeedback"
        /\ repoLog[i].arg.id = id}

RECURSIVE SumHelpful(_)
SumHelpful(calls) ==
    IF calls = {} THEN 0
    ELSE LET i == CHOOSE c \in calls : TRUE
         IN repoLog[i].arg.helpfulDelta + SumHelpful(calls \ {i})

RECURSIVE SumHarmful(_)
SumHarmful(calls) ==
    IF calls = {} THEN 0
    ELSE LET i == CHOOSE c \in calls : TRUE
         IN repoLog[i].arg.harmfulDelta + SumHarmful(calls \ {i})

\* C8 (as claimed): the counters of a stored item created with zero counters
\* equal the sums of the deltas of all feedback calls made on it.
C8_CountersSumAllCalls ==
    \A r \in knowledgeItems :
        /\ r.helpful = SumHelpful(FeedbackCalls(r.id))
        /\ r.harmful = SumHarmful(FeedbackCalls(r.id))

\* C8 (amended): the counters equal the sums of the deltas of the feedback
\* calls that succeeded; a call that would take a counter below zero fails and
\* changes neither counter.
C8_CountersSumSucceededCalls ==
    \A r \in knowledgeItems :
        /\ r.helpful = SumHelpful({i \in FeedbackCalls(r.id) : repoLog[i].ok})
        /\ r.harmful = SumHarmful({i \in FeedbackCalls(r.id) : repoLog[i].ok})
        /\ \A i \in FeedbackCalls(r.id) : ~repoLog[i].ok => ~repoLog[i].changed

\* C8 witness: an item has had a rejected and an accepted feedback call
C8_Witness ==
    \E r \in knowledgeItems :
        /\ \E i \in FeedbackCalls(r.id) : ~repoLog[i].ok
        /\ \E i \in FeedbackCalls(r.id) : repoLog[i].ok /\ repoLog[i].changed
        /\ r.helpful + r.harmful > 0

-----------------------------------------------------------------------------
(* Working memory and memory events (store/repository.ts),                   *)
(* promotion of insights (utils/memoryPromotion.ts)                          *)

\* the sequences that enumerate the set S
Perms(S) ==
    {f \in [1..Cardinality(S) -> S] : \A i, j \in 1..Cardinality(S) : f[i] = f[j] => i = j}

\* lower-casing of the words the inputs use
toLowerCase(w) == IF w = "Always" THEN "always" ELSE w

WordsOf(ws) == {toLowerCase(ws[i]) : i \in 1..Len(ws)}

DecisionWords == {"should", "must", "prefer", "avoid", "never", "always"}
InvariantWords == {"require", "requires", "constraint", "rule", "law", "guarantee"}

\* classifyInsight: decision words first, then invariant words, else summary
classifyInsight(insight) ==
    LET ws == WordsOf(insight.pattern) \cup WordsOf(insight.description) IN
    IF ws \cap DecisionWords # {} THEN "decision"
    ELSE IF ws \cap InvariantWords # {} THEN "invariant"
    ELSE "summary"

\* listInsights({minConfidence}): ORDER BY confidence DESC, frequency DESC; rows
\* equal in both come in any order
listInsights(rows, minConfidence) ==
    LET sel == {r \in rows : r.confidence >= minConfidence} IN
    {f \in Perms(sel) :
        \A i, j \in 1..Cardinality(sel) :
            i < j => \/ f[i].confidence > f[j].confidence
                     \/ /\ f[i].confidence = f[j].confidence
                        /\ f[i].frequency >= f[j].frequency}

\* listWorkingMemory({projectId}): ORDER BY updated_at DESC.  The rows reach
\* the sorter through the index on project_id, in rowid order, and SQLite keeps
\* that order among rows with equal updated_at.
listWorkingMemory(rows, projectId) ==
    LET sel == {r \in rows : r.projectId = projectId} IN
    {f \in Perms(sel) :
        \A i, j \in 1..Cardinality(sel) :
            i < j => \/ f[i].updatedAt > f[j].updatedAt
                     \/ /\ f[i].updatedAt = f[j].updatedAt
                        /\ f[i].rowid < f[j].rowid}

\* recordMemoryEvent: INSERT OR IGNORE under the id derived from the event
recordMemoryEvent(rows, event, now) ==
    LET id == deterministicId(event) IN
    IF \E r \in rows : r.id = id
    THEN rows
    ELSE rows \cup {[id |-> id, subjectId |-> event.subjectId,
                     subjectKind |-> event.subjectKind, event |-> event.event,
                     data |-> event.data, createdAt |-> now]}

\* promoteInsightsToWorkingMemory, the entry built from one insight
PromotionEntry(insight, projectId) ==
    [projectId |-> projectId, type |-> classifyInsight(insight),
     contentText |-> <<insight.pattern, "-", insight.description>>,
     provenance |-> [source |-> "insight", insightId |-> insight.id,
                     confidence |-> insight.confidence, frequency |-> insight.frequency]]

\* promoteInsightsToWorkingMemory, the event recorded for one insight
PromotionEvent(insight) ==
    [subjectId |-> insight.id, subjectKind |-> "insight",
     event |-> "promoted_to_working_memory",
     data |-> [type |-> classifyInsight(insight), confidence |-> insight.confidence,
               frequency |-> insight.frequency]]

-----------------------------------------------------------------------------
(* apply: applyCommand (cli/commands/apply.ts)                               *)

\* the file: whether it exists and its content
File(content) == [exists |-> TRUE, content |-> content]
NoFile == [exists |-> FALSE, content |-> <<>>]

\* a chunk of text of the document (a line, or a run of lines)
Text(t) == [text |-> t]

beginMarker == Text("<!-- BEGIN: LEARNED_PATTERNS -->")
endMarker   == Text("<!-- END: LEARNED_PATTERNS -->")

\* The guidance documents Apply is invoked on
Documents ==
    { File(<<Text("# Guide"), beginMarker, endMarker, Text("footer")>>),
      File(<<Text("# Guide"), beginMarker, Text("stale"), endMarker>>),
      File(<<Text("# Guide"), beginMarker, Text("footer")>>),
      File(<<Text("# Guide"), endMarker>>),
      File(<<endMarker, Text("# Guide"), beginMarker>>),
      NoFile }

\* content.indexOf(marker), counting chunks from 1; 0 when absent
indexOf(content, marker) ==
    IF \E i \in 1..Len(content) : content[i] = marker
    THEN CHOOSE i \in 1..Len(content) :
            /\ content[i] = marker
            /\ \A j \in 1..(i - 1) : content[j] # marker
    ELSE 0

\* startIdx === -1 || endIdx === -1 || endIdx <= startIdx
MarkersMissing(content) ==
    \/ indexOf(content, beginMarker) = 0
    \/ indexOf(content, endMarker) = 0
    \/ indexOf(content, endMarker) <= indexOf(content, beginMarker)

\* a.text.localeCompare(b.text) for the texts the inputs use
TextOrder == <<"cache results", "retry flaky calls">>
localeCompare(a, b) ==
    (CHOOSE i \in 1..Len(TextOrder) : TextOrder[i] = a)
      - (CHOOSE i \in 1..Len(TextOrder) : TextOrder[i] = b)

\* the comparator of the sort: helpful descending, confidence descending, text
KnowledgeCompare(a, b) ==
    IF b.helpful - a.helpful # 0 THEN b.helpful - a.helpful
    ELSE IF b.confidence - a.confidence # 0 THEN b.confidence - a.confidence
    ELSE localeCompare(a.text, b.text)

\* listKnowledgeItems({minConfidence: 0.5}).sort(...): a stable sort of the
\* rows listed by updated_at DESC
SortedKnowledge(rows) ==
    LET sel == {r \in rows : r.confidence >= 5} IN
    {f \in Perms(sel) :
        \A i, j \in 1..Cardinality(sel) :
            i < j => \/ KnowledgeCompare(f[i], f[j]) < 0
                     \/ /\ KnowledgeCompare(f[i], f[j]) = 0
                        /\ f[i].updatedAt >= f[j].updatedAt}

\* items.filter(item => item.type === type), in order
RECURSIVE FilterType(_, _)
FilterType(items, type) ==
    IF items = <<>> THEN <<>>
    ELSE IF Head(items).type = type
         THEN <<Head(items)>> \o FilterType(Tail(items), type)
         ELSE FilterType(Tail(items), type)

\* lines.join('\n\n'): the lines with an empty line between them
RECURSIVE JoinBlank(_)
JoinBlank(lines) ==
    IF Len(lines) <= 1 THEN lines
    ELSE <<Head(lines), Text("")>> \o JoinBlank(Tail(lines))

\* item.id.slice(0, 8)
idTag(id) == <<"slice8", id>>

\* renderKnowledgeSection: one line per item with its id tag, badge and text
renderKnowledgeSection(items, type) ==
    LET filtered == FilterType(items, type) IN
    JoinBlank([i \in 1..Len(filtered) |->
                 [idTag |-> idTag(filtered[i].id),
                  helpful |-> IF filtered[i].helpful > 0 THEN filtered[i].helpful ELSE 0,
                  harmful |-> IF filtered[i].harmful > 0 THEN filtered[i].harmful ELSE 0,
                  text |-> filtered[i].text]])

\* renderWorkingMemorySection: one line per entry with its id tag and text
renderWorkingMemorySection(items, type) ==
    LET filtered == FilterType(items, type) IN
    JoinBlank([i \in 1..Len(filtered) |->
                 [idTag |-> idTag(filtered[i].id), text |-> filtered[i].contentText]])

\* a section with its heading, when it is not empty
Section(heading, body) ==
    IF body = <<>> THEN <<>> ELSE <<Text(heading), Text("")>> \o body \o <<Text("")>>

\* learnedSection, lines 139-179
learnedSection(allKnowledge, wm) ==
    LET summarySection == renderWorkingMemorySection(wm, "summary")
        invariantSection == renderWorkingMemorySection(wm, "invariant")
        wmDecisionSection == renderWorkingMemorySection(wm, "decision")
    IN <<beginMarker, Text("## Learned Patterns"), Text(""), Text("*Auto-maintained*"), Text("")>>
       \o Section("### Patterns", renderKnowledgeSection(allKnowledge, "pattern"))
       \o Section("### Facts", renderKnowledgeSection(allKnowledge, "fact"))
       \o Section("### Procedures", renderKnowledgeSection(allKnowledge, "procedure"))
       \o Section("### Decisions", renderKnowledgeSection(allKnowledge, "decision"))
       \o (IF summarySection # <<>> \/ invariantSection # <<>> \/ wmDecisionSection # <<>>
           THEN <<Text("## Working Memory"), Text("")>> ELSE <<>>)
       \o Section("### Summaries", summarySection)
       \o Section("### Invariants", invariantSection)
       \o Section("### Key Decisions", wmDecisionSection)
       \o <<Text("---"), Text("")>>

\* a mutant of newContent: the text after the end marker is dropped
newContent_DropAfter(content, allKnowledge, wm) ==
    SubSeq(content, 1, indexOf(content, beginMarker) - 1)
      \o learnedSection(allKnowledge, wm)
      \o <<endMarker>>

\* newContent = before + learnedSection.join('\n') + '\n' + after
newContent(content, allKnowledge, wm) ==
    SubSeq(content, 1, indexOf(content, beginMarker) - 1)
      \o learnedSection(allKnowledge, wm)
      \o SubSeq(content, indexOf(content, endMarker), Len(content))

IdleApply == [pc |-> "idle", queue |-> <<>>, dbAtStart |-> <<>>]

\* an entry of the apply log: the outcome, the document afterwards and whether
\* the call wrote the file or changed a row
ApplyEntry(ok, error, rendered, wrote, content, markersMissing, dbChanged) ==
    [ok |-> ok, error |-> error, rendered |-> rendered, wrote |-> wrote,
     content |-> content, markersMissing |-> markersMissing, dbChanged |-> dbChanged]

InitApplyIdle ==
    /\ agentsMd = NoFile
    /\ clock = 0
    /\ apply = IdleApply
    /\ applyLog = <<>>

\* applyCommand, lines 64-73 and memoryPromotion 54: list the insights to promote
ApplyBegin ==
    /\ apply.pc = "idle"
    /\ \E q \in listInsights(insights, 8) :
          apply' = [pc |-> "promote", queue |-> q, dbAtStart |-> storeTables]
    /\ UNCHANGED <<storeTables, agentsMd, clock, applyLog>>
    /\ UNCHANGED notApply

\* `apply` invoked from the command line
ApplyStart == Len(applyLog) < MaxApplies /\ ApplyBegin

\* memoryPromotion 60-89: upsert the entry of the next insight, record the event
ApplyPromote ==
    /\ apply.pc = "promote"
    /\ apply.queue # <<>>
    /\ workingMemory' = upsertWorkingMemory(workingMemory,
                                            PromotionEntry(Head(apply.queue), "."), clock)
    /\ memoryEvents' = recordMemoryEvent(memoryEvents, PromotionEvent(Head(apply.queue)), clock)
    /\ apply' = [apply EXCEPT !.queue = Tail(@)]
    /\ UNCHANGED <<knowledgeItems, insights, shortTermMemory, agentsMd, clock, applyLog>>
    /\ UNCHANGED notApply

\* applyCommand, lines 79-203: list, check the file and its markers, render,
\* write when the content changed
ApplyRender ==
    /\ apply.pc = "promote"
    /\ apply.queue = <<>>
    /\ \E allKnowledge \in SortedKnowledge(knowledgeItems),
          wm \in listWorkingMemory(workingMemory, ".") :
          LET dbChanged == storeTables # apply.dbAtStart IN
          IF ~agentsMd.exists
          THEN /\ applyLog' = Append(applyLog,
                      ApplyEntry(FALSE, "AGENTS.md not found", FALSE, FALSE, agentsMd,
                                 FALSE, dbChanged))
               /\ UNCHANGED agentsMd
          ELSE IF MarkersMissing(agentsMd.content)
          THEN /\ applyLog' = Append(applyLog,
                      ApplyEntry(FALSE, "AGENTS.md missing required HTML comment markers",
                                 FALSE, FALSE, agentsMd, TRUE, dbChanged))
               /\ UNCHANGED agentsMd
          ELSE LET new == newContent(agentsMd.content, allKnowledge, wm)
                   contentChanged == new # agentsMd.content
               IN /\ agentsMd' = IF contentChanged THEN File(new) ELSE agentsMd
                  /\ applyLog' = Append(applyLog,
                         ApplyEntry(TRUE, Null, contentChanged, contentChanged, File(new),
                                    FALSE, dbChanged))
    /\ apply' = IdleApply
    /\ UNCHANGED <<storeTables, clock>>
    /\ UNCHANGED notApply

NextApply ==
    \/ ApplyStart
    \/ ApplyPromote
    \/ ApplyRender
    \/ Tick

\* the rows addKnowledgeItem / addInsight store for a set of inputs
RECURSIVE KnowledgeRowsOf(_)
KnowledgeRowsOf(inputs) ==
    IF inputs = {} THEN {}
    ELSE LET x == CHOOSE i \in inputs : TRUE
         IN addKnowledgeItem(KnowledgeRowsOf(inputs \ {x}), x)

RECURSIVE InsightRowsOf(_)
InsightRowsOf(inputs) ==
    IF inputs = {} THEN {}
    ELSE LET x == CHOOSE i \in inputs : TRUE
         IN addInsight(InsightRowsOf(inputs \ {x}), x)

\* a project with some knowledge items and insights stored and a guidance
\* document, before any apply
InitApplyStore ==
    /\ \E ks \in SUBSET {k \in KnowledgeInputs : KnowledgeItemSchema(k)} :
          knowledgeItems = KnowledgeRowsOf(ks)
    /\ \E is \in SUBSET InsightInputs : insights = InsightRowsOf(is)
    /\ shortTermMemory = {}
    /\ workingMemory = {}
    /\ memoryEvents = {}
    /\ auditLog = <<>>
    /\ agentsMd \in Documents
    /\ clock = 0
    /\ apply = IdleApply
    /\ applyLog = <<>>

-----------------------------------------------------------------------------
(* C9, C10 *)

\* C9 (as claimed): an apply invoked on a document whose markers are missing or
\* out of order fails, does not write the file and has not inserted, updated
\* or deleted a database row.
C9_MarkerAbsenceNoSideEffect ==
    \A i \in 1..Len(applyLog) :
        applyLog[i].markersMissing =>
            /\ ~applyLog[i].ok
            /\ ~applyLog[i].wrote
            /\ ~applyLog[i].dbChanged

\* C10 (as claimed): an apply that follows a successful apply with no new data
\* produces the same document, does not write the file and returns
\* rendered = false.
C10_RendererIdempotence ==
    \A i \in 1..(Len(applyLog) - 1) :
        (applyLog[i].ok /\ applyLog[i + 1].ok) =>
            /\ applyLog[i + 1].content = applyLog[i].content
            /\ ~applyLog[i + 1].wrote
            /\ ~applyLog[i + 1].rendered

-----------------------------------------------------------------------------
(* C11 *)

\* the part of a document before its begin marker
BeforeBegin(content) == SubSeq(content, 1, indexOf(content, beginMarker) - 1)

\* the part of a document after its end marker
AfterEnd(content) == SubSeq(content, indexOf(content, endMarker) + 1, Len(content))

\* C11: an apply that returns successfully leaves the part of the document
\* before the begin marker and the part after the end marker as they were.
C11_PreservedSurroundings ==
    [][ ( /\ Len(applyLog') = Len(applyLog) + 1
          /\ applyLog'[Len(applyLog')].ok )
        => /\ agentsMd'.exists
           /\ BeforeBegin(agentsMd'.content) = BeforeBegin(agentsMd.content)
           /\ AfterEnd(agentsMd'.content) = AfterEnd(agentsMd.content) ]_vars

\* C11 witness: an apply rewrote a document that has text before the begin
\* marker and after the end marker
C11_Witness ==
    /\ \E i \in 1..Len(applyLog) : applyLog[i].ok /\ applyLog[i].wrote
    /\ agentsMd.exists
    /\ BeforeBegin(agentsMd.content) # <<>>
    /\ AfterEnd(agentsMd.content) # <<>>
    /\ Len(agentsMd.content) > 6

-----------------------------------------------------------------------------
(* C12, C13 *)

\* the attempts stored for the run of the last `bbon run` invocation
AttemptsOfRun == {a \in attempts : a.runId = runRunId}

\* C12: when `bbon run` with parameter n has returned, its run has exactly n
\* attempts, with the ordinals 0..n-1, each completed or failed, whatever
\* attempts failed.
C12_RunNeverAborts ==
    (runPc = "idle" /\ runInvocations > 0 /\ runError = Null) =>
        /\ Cardinality(AttemptsOfRun) = runN
        /\ {a.ordinal : a \in AttemptsOfRun} = 0..(runN - 1)
        /\ \A a \in AttemptsOfRun : a.status \in Terminal

\* C12 witness: the run returned with a failed attempt followed by a further
\* ordinal
C12_Witness ==
    /\ runPc = "idle" /\ runInvocations > 0 /\ runError = Null
    /\ \E a, b \in AttemptsOfRun : a.status = "failed" /\ b.ordinal > a.ordinal

\* C13 (as claimed): every step appended to an attempt has a stepIndex larger
\* than that of every step already stored for that attempt.
C13_StepIndexIncreasing ==
    [][\A s \in attemptSteps' \ attemptSteps :
          \A t \in attemptSteps : t.attemptId = s.attemptId => s.stepIndex > t.stepIndex]_vars

-----------------------------------------------------------------------------
(* C14 *)

\* C14: in every state `bbon run` reaches, every attempt whose status is
\* completed has a completedAt.
C14_CompletedHasCompletedAt ==
    \A a \in attempts : a.status = "completed" => a.completedAt # Null

\* C14 witness: a learn call returned and its attempt has completed
C14_Witness ==
    \E a \in attempts :
        /\ a.status = "completed"
        /\ a.completedAt = Now
        /\ \E i \in 1..Len(learnLog) : learnLog[i].ok

-----------------------------------------------------------------------------
(* Repository calls on the attempts of a run *)

\* a stored run without attempts
InitAttemptCalls ==
    /\ bbonRuns = addBbonRun({}, BbonRunInput(MaxN, SeedOf("42", 0)))
    /\ attempts = {}
    /\ attemptSteps = {}
    /\ judgePairs = {}
    /\ judgeOutcomes = {}

\* the arguments of the calls: the ids of the attempts of the run, a result
\* map, the completedAt values (absent, empty, an instant) and the patches
AttemptIds == {deterministicId(AttemptInput(i)) : i \in 0..(MaxN - 1)}
ResultArgs == {Null, "{result}"}
CompletedAtArgs == {Null, "", Now}
AttemptPatch(status, result, completedAt) ==
    (IF status # Null THEN [status |-> status] ELSE <<>>)
    @@ (IF result # Null THEN [result |-> result] ELSE <<>>)
    @@ (IF completedAt # Null THEN [completedAt |-> completedAt] ELSE <<>>)
AttemptPatches ==
    {AttemptPatch(status, result, completedAt) :
        status \in AttemptStatus \cup {Null}, result \in ResultArgs,
        completedAt \in CompletedAtArgs}

\* repo.addAttempt({runId, ordinal, status: 'pending'})
AddAttempt(i) ==
    /\ Len(repoLog) < MaxRepoCalls
    /\ LET new == addAttempt(attempts, AttemptInput(i)) IN
       /\ attempts' = new
       /\ repoLog' = Append(repoLog,
             RepoEntry("addAttempt", i, TRUE, deterministicId(AttemptInput(i)),
                       new # attempts, Cardinality(new)))
    /\ UNCHANGED notAttempt

\* repo.updateAttempt(id, updates)
UpdateAttempt(id, updates) ==
    /\ Len(repoLog) < MaxRepoCalls
    /\ LET new == updateAttempt(attempts, id, updates) IN
       /\ attempts' = new
       /\ repoLog' = Append(repoLog,
             RepoEntry("updateAttempt", id, TRUE, Null, new # attempts, Cardinality(new)))
    /\ UNCHANGED notAttempt

\* repo.updateAttemptStatus(id, status, completedAt, result)
UpdateAttemptStatus(id, status, completedAt, result) ==
    /\ Len(repoLog) < MaxRepoCalls
    /\ LET new == updateAttemptStatus(attempts, id, status, completedAt, result) IN
       /\ attempts' = new
       /\ repoLog' = Append(repoLog,
             RepoEntry("updateAttemptStatus", id, TRUE, Null,
                       new # attempts, Cardinality(new)))
    /\ UNCHANGED notAttempt

NextAttempt ==
    \/ \E i \in 0..(MaxN - 1) : AddAttempt(i)
    \/ \E id \in AttemptIds, updates \in AttemptPatches : UpdateAttempt(id, updates)
    \/ \E id \in AttemptIds, status \in AttemptStatus, completedAt \in CompletedAtArgs,
          result \in ResultArgs : UpdateAttemptStatus(id, status, completedAt, result)

-----------------------------------------------------------------------------
(* C15 *)

\* the Attempt state machine: pending -> running -> {completed, failed}
LegalTransitions ==
    {<<"pending", "running">>, <<"running", "completed">>, <<"running", "failed">>}

\* C15 (as claimed): updateAttempt validates status changes: whenever the
\* stored status of an Attempt changes, the change is pending -> running,
\* running -> completed or running -> failed; any other requested change is
\* rejected and leaves the row as it was.
C15_UpdateAttemptValidates ==
    [][\A a \in attempts : \A b \in attempts' :
          (b.id = a.id /\ b.status # a.status)
              => <<a.status, b.status>> \in LegalTransitions]_vars

-----------------------------------------------------------------------------
(* C20 *)

\* C20 (as claimed): right after runMigrations has returned successfully,
\* needsMigration returns false: the current version equals the highest known
\* migration version.
C20_NoMigrationNeededAfterRun ==
    ( /\ mig.pc = "idle"
      /\ Len(migLog) > 0
      /\ migLog[Len(migLog)].op = "runMigrations"
      /\ migLog[Len(migLog)].ok )
    => /\ ~needsMigration(dbTables, schemaVersion)
       /\ getCurrentVersion(dbTables, schemaVersion)
             = MaxOf({loadMigrations[i].version : i \in 1..Len(loadMigrations)})

-----------------------------------------------------------------------------
(* Canonical JSON and content-addressed ids: utils/canonicalize.ts, id.ts.   *)
(* A JS value is a record with one field: [num], [str], [undef], [arr] (a    *)
(* sequence of values) or [obj] (the properties in insertion order, each a   *)
(* record [k, val]).  The canonical text is a sequence of tokens.            *)

Num(n) == [num |-> n]
Str(s) == [str |-> s]
Undefined == [undef |-> TRUE]
Arr(elements) == [arr |-> elements]
Obj(props) == [obj |-> props]
Prop(k, val) == [k |-> k, val |-> val]

\* the order of Array.prototype.sort() on the property names of the model
\* (UTF-16 code units: upper case before lower case)
KeyOrder == <<"B", "a", "b">>
KeyRank(k) == CHOOSE i \in 1..Len(KeyOrder) : KeyOrder[i] = k

\* keys.sort(): insertion of each key into the sorted rest
RECURSIVE InsertKey(_, _)
InsertKey(k, sorted) ==
    IF sorted = <<>> THEN <<k>>
    ELSE IF KeyRank(k) <= KeyRank(Head(sorted)) THEN <<k>> \o sorted
         ELSE <<Head(sorted)>> \o InsertKey(k, Tail(sorted))

RECURSIVE SortKeys(_)
SortKeys(keys) ==
    IF keys = <<>> THEN <<>> ELSE InsertKey(Head(keys), SortKeys(Tail(keys)))

\* Object.keys(objAny).filter(k => objAny[k] !== undefined)
RECURSIVE DefinedKeys(_)
DefinedKeys(props) ==
    IF props = <<>> THEN <<>>
    ELSE IF Head(props).val = Undefined THEN DefinedKeys(Tail(props))
         ELSE <<Head(props).k>> \o DefinedKeys(Tail(props))

\* objAny[key]
ValueOf(props, key) == props[CHOOSE i \in 1..Len(props) : props[i].k = key].val

\* parts.join(',')
RECURSIVE JoinComma(_)
JoinComma(parts) ==
    IF parts = <<>> THEN <<>>
    ELSE IF Len(parts) = 1 THEN Head(parts)
         ELSE Head(parts) \o <<",">> \o JoinComma(Tail(parts))

\* JSON.stringify of a string
Quoted(s) == <<"\"", s, "\"">>

\* a mutant of canonicalize: the keys are taken in insertion order
RECURSIVE canonicalize_NoSort(_)
canonicalize_NoSort(value) ==
    IF "undef" \in DOMAIN value THEN <<"null">>
    ELSE IF "num" \in DOMAIN value THEN <<ToString(value.num)>>
    ELSE IF "str" \in DOMAIN value THEN Quoted(value.str)
    ELSE IF "arr" \in DOMAIN value
    THEN <<"[">>
         \o JoinComma([i \in 1..Len(value.arr) |-> canonicalize_NoSort(value.arr[i])])
         \o <<"]">>
    ELSE LET keys == DefinedKeys(value.obj)
             pairs == [i \in 1..Len(keys) |->
                         Quoted(keys[i]) \o <<":">>
                           \o canonicalize_NoSort(ValueOf(value.obj, keys[i]))]
         IN <<"{">> \o JoinComma(pairs) \o <<"}">>

\* canonicalize: null and undefined give null, numbers their String(), strings
\* JSON.stringify, arrays their elements in order, objects their defined
\* properties in sorted key order
RECURSIVE canonicalize(_)
canonicalize(value) ==
    IF "undef" \in DOMAIN value THEN <<"null">>
    ELSE IF "num" \in DOMAIN value THEN <<ToString(value.num)>>
    ELSE IF "str" \in DOMAIN value THEN Quoted(value.str)
    ELSE IF "arr" \in DOMAIN value
    THEN <<"[">>
         \o JoinComma([i \in 1..Len(value.arr) |-> canonicalize(value.arr[i])])
         \o <<"]">>
    ELSE LET keys == SortKeys(DefinedKeys(value.obj))
             pairs == [i \in 1..Len(keys) |->
                         Quoted(keys[i]) \o <<":">> \o canonicalize(ValueOf(value.obj, keys[i]))]
         IN <<"{">> \o JoinComma(pairs) \o <<"}">>

\* deterministicId of a JS value: the SHA-256 digest of its canonical text
\* (the digest is modelled by the tagged text: no collisions)
deterministicIdOf(value) == <<"sha256", canonicalize(value)>>

\* The creation inputs of the model.  Inner objects have the properties a and
\* B in either insertion order; the outer object holds one inner object, an
\* array of one inner object and a scalar, in any insertion order.
Scalars == {Num(1), Str("1"), Undefined}

InnerObjects ==
    UNION { {Obj(<<Prop("a", x), Prop("B", y)>>), Obj(<<Prop("B", y), Prop("a", x)>>)}
            : x \in Scalars, y \in {Num(2), Undefined} }

OuterOrders ==
    {<<"a", "b">>, <<"b", "a">>}

CreationInputs ==
    { Obj([i \in 1..2 |-> IF o[i] = "a" THEN Prop("a", inner)
                          ELSE Prop("b", Arr(<<inArray>>))])
      : o \in OuterOrders, inner \in InnerObjects, inArray \in InnerObjects }

\* the value without the insertion order of its properties: an object is the
\* set of its properties
RECURSIVE Unordered(_)
Unordered(value) ==
    IF "arr" \in DOMAIN value
    THEN [arr |-> [i \in 1..Len(value.arr) |-> Unordered(value.arr[i])]]
    ELSE IF "obj" \in DOMAIN value
    THEN [obj |-> {Prop(value.obj[i].k, Unordered(value.obj[i].val))
                     : i \in 1..Len(value.obj)}]
    ELSE value

\* two creation inputs that differ at most in the insertion order of the
\* properties of their objects, at any depth
KeyPermuted(x, y) == Unordered(x) = Unordered(y)


IdleCanon == [left |-> Undefined, right |-> Undefined,
              idLeft |-> NoId, idRight |-> NoId, calls |-> 0]

InitCanonIdle == canon = IdleCanon

\* the same entity is created from two inputs that are key permutations of
\* each other
InitCanonInputs ==
    \E x \in CreationInputs, y \in CreationInputs :
        /\ KeyPermuted(x, y)
        /\ canon = [left |-> x, right |-> y, idLeft |-> NoId, idRight |-> NoId, calls |-> 0]

\* deterministicId(left)
DeriveLeft ==
    /\ canon.idLeft = NoId
    /\ canon' = [canon EXCEPT !.idLeft = deterministicIdOf(canon.left), !.calls = @ + 1]
    /\ UNCHANGED notCanon

\* deterministicId(right)
DeriveRight ==
    /\ canon.idRight = NoId
    /\ canon' = [canon EXCEPT !.idRight = deterministicIdOf(canon.right), !.calls = @ + 1]
    /\ UNCHANGED notCanon

NextCanon ==
    \/ DeriveLeft
    \/ DeriveRight

-----------------------------------------------------------------------------
(* C18 *)

\* C18: the ids derived from two creation inputs that differ only in the
\* order of their map keys, at any nesting depth, are identical.
C18_IdDeterminism ==
    (canon.idLeft # NoId /\ canon.idRight # NoId /\ KeyPermuted(canon.left, canon.right))
        => canon.idLeft = canon.idRight

\* C18 witness: both ids are derived for two inputs whose key order differs
\* inside the nested object and inside the array
C18_Witness ==
    /\ canon.idLeft # NoId /\ canon.idRight # NoId
    /\ canon.left # canon.right
    /\ \E i, j \in 1..2 :
          /\ canon.left.obj[i].k = "a" /\ canon.right.obj[j].k = "a"
          /\ canon.left.obj[i].val # canon.right.obj[j].val
    /\ \E i, j \in 1..2 :
          /\ canon.left.obj[i].k = "b" /\ canon.right.obj[j].k = "b"
          /\ canon.left.obj[i].val # canon.right.obj[j].val

-----------------------------------------------------------------------------
(* The connection registry: store/sqlite.ts DatabasePool, getDatabase,       *)
(* closeDatabase, closeAllDatabases.  A handle is the number of the          *)
(* initDatabase call that opened it.                                         *)

DbPaths == {"engram.db", "test2.db"}

\* options.readonly as the template literal `${options.readonly}` prints it
ReadonlyOptions == {"undefined", "false", "true"}

\* `${options.path}:${options.readonly}`
PoolKey(path, readonly) == <<path, readonly>>

\* an entry of the registry log
PoolEntry(op, path, readonly, ok, handle) ==
    [op |-> op, path |-> path, readonly |-> readonly, ok |-> ok, handle |-> handle]

InitPoolEmpty ==
    /\ pool = [instances |-> {}, closed |-> {}, opened |-> 0, files |-> {}]
    /\ poolLog = <<>>

\* this.instances.get(key): the handles stored under the key
InstancesGet(instances, key) == {e.handle : e \in {x \in instances : x.key = key}}

\* DatabasePool.get, lines 64-74, with initDatabase 23-56: a read-only open of
\* a file that does not exist throws, any other open creates the file
GetDatabase(path, readonly) ==
    /\ Len(poolLog) < MaxPoolCalls
    /\ LET key == PoolKey(path, readonly)
           found == InstancesGet(pool.instances, key)
       IN IF found # {}
          THEN /\ poolLog' = Append(poolLog, PoolEntry("getDatabase", path, readonly, TRUE,
                                                       CHOOSE h \in found : TRUE))
               /\ UNCHANGED pool
          ELSE IF readonly = "true" /\ path \notin pool.files
          THEN /\ poolLog' = Append(poolLog, PoolEntry("getDatabase", path, readonly, FALSE, 0))
               /\ UNCHANGED pool
          ELSE LET db == pool.opened + 1 IN
               /\ pool' = [pool EXCEPT
                             !.instances = @ \cup {[key |-> key, handle |-> db]},
                             !.opened = db,
                             !.files = @ \cup {path}]
               /\ poolLog' = Append(poolLog, PoolEntry("getDatabase", path, readonly, TRUE, db))
    /\ UNCHANGED notPool

\* DatabasePool.close, lines 76-85: the keys `${path}:false` and `${path}:true`
CloseDatabase(path) ==
    /\ Len(poolLog) < MaxPoolCalls
    /\ LET keys == {PoolKey(path, "false"), PoolKey(path, "true")}
           hit == {e \in pool.instances : e.key \in keys}
       IN /\ pool' = [pool EXCEPT
                        !.instances = @ \ hit,
                        !.closed = @ \cup {e.handle : e \in hit}]
          /\ poolLog' = Append(poolLog, PoolEntry("closeDatabase", path, "undefined", TRUE, 0))
    /\ UNCHANGED notPool

\* DatabasePool.closeAll, lines 87-92
CloseAllDatabases ==
    /\ Len(poolLog) < MaxPoolCalls
    /\ pool' = [pool EXCEPT
                  !.instances = {},
                  !.closed = @ \cup {e.handle : e \in pool.instances}]
    /\ poolLog' = Append(poolLog, PoolEntry("closeAllDatabases", "", "undefined", TRUE, 0))
    /\ UNCHANGED notPool

NextPool ==
    \/ \E path \in DbPaths, readonly \in ReadonlyOptions : GetDatabase(path, readonly)
    \/ \E path \in DbPaths : CloseDatabase(path)
    \/ CloseAllDatabases

-----------------------------------------------------------------------------
(* C19 *)

\* C19 (as claimed): when closeDatabase(path) returns, every handle getDatabase
\* returned for that path before is closed and no longer in the registry.
C19_ClosesOnRequest ==
    [][ ( /\ Len(poolLog') = Len(poolLog) + 1
          /\ poolLog'[Len(poolLog')].op = "closeDatabase" )
        => \A i \in 1..Len(poolLog) :
              ( /\ poolLog[i].op = "getDatabase"
                /\ poolLog[i].ok
                /\ poolLog[i].path = poolLog'[Len(poolLog')].path )
              => /\ poolLog[i].handle \in pool'.closed
                 /\ \A e \in pool'.instances : e.handle # poolLog[i].handle ]_vars

-----------------------------------------------------------------------------
(* The learning loop: captureCommand, learnCommand with its preflight, and   *)
(* the three steps it calls: reflectCommand, curateCommand, applyCommand.    *)
(* init creates .engram/engram.db; reflect, apply and capture open that      *)
(* file, curateCommand opens .ace/ace.db.  A message is a sequence of words, *)
(* " " a run of white space.                                                 *)

\* the error of a failed execution
TraceError(tool, file, message) == [tool |-> tool, file |-> file, message |-> message]

\* what capture is given: the traces of the end-to-end scenarios
TraceInputs ==
    { [beadId |-> "test-bead-1", outcome |-> "failure",
       executions |-> <<[status |-> "fail",
                         errors |-> <<TraceError(<<"eslint">>, <<"src/utils.ts">>,
                                                 <<"missing", "semicolon">>)>>]>>],
      [beadId |-> "test-bead-2", outcome |-> "failure",
       executions |-> <<[status |-> "fail",
                         errors |-> <<TraceError(<<"eslint">>, <<"src/utils.ts">>,
                                                 <<"missing", "semicolon">>)>>]>>],
      [beadId |-> "test-bead-3", outcome |-> "failure",
       executions |-> <<[status |-> "fail",
                         errors |-> <<TraceError(<<"tsc">>, <<"src/test.ts">>, <<" ">>),
                                      TraceError(<<"tsc">>, <<"src/test.ts">>,
                                                 <<"type", "error">>)>>]>>],
      [beadId |-> "test-bead-4", outcome |-> "success",
       executions |-> <<[status |-> "pass", errors |-> <<>>]>>] }

\* addTrace: INSERT OR IGNORE under the derived id; the table afterwards
addTrace(rows, trace, now) ==
    LET id == deterministicId(trace) IN
    IF \E r \in rows : r.id = id
    THEN rows
    ELSE rows \cup {[id |-> id, beadId |-> trace.beadId, executions |-> trace.executions,
                     outcome |-> trace.outcome, createdAt |-> now,
                     rowid |-> MaxOf({r.rowid : r \in rows}) + 1]}

\* listTracesByOutcome: WHERE outcome = ? ORDER BY created_at DESC; the rows
\* reach the sorter through the index on outcome, in rowid order
listTracesByOutcome(rows, outcome) ==
    LET sel == {r \in rows : r.outcome = outcome} IN
    {f \in Perms(sel) :
        \A i, j \in 1..Cardinality(sel) :
            i < j => \/ f[i].createdAt > f[j].createdAt
                     \/ /\ f[i].createdAt = f[j].createdAt
                        /\ f[i].rowid < f[j].rowid}

\* String.prototype.trim
RECURSIVE trimStart(_)
trimStart(message) ==
    IF message # <<>> /\ Head(message) = " " THEN trimStart(Tail(message)) ELSE message

RECURSIVE trimEnd(_)
trimEnd(message) ==
    IF message # <<>> /\ message[Len(message)] = " "
    THEN trimEnd(SubSeq(message, 1, Len(message) - 1))
    ELSE message

trim(message) == trimEnd(trimStart(message))

\* reflectCommand 243-270: the errors of the failed executions of the failed
\* traces whose trimmed message is not empty, as <<trace, execution, error>>
ErrorSites(failedTraces) ==
    UNION { UNION { { <<i, j, k>> : k \in { k \in 1..Len(failedTraces[i].executions[j].errors) :
                         /\ failedTraces[i].executions[j].status = "fail"
                         /\ trim(failedTraces[i].executions[j].errors[k].message) # <<>> } }
                    : j \in 1..Len(failedTraces[i].executions) }
            : i \in 1..Len(failedTraces) }

\* `${tool}:${file}:${message}`: the three texts joined by colons
PatternKey(failedTraces, site) ==
    LET error == failedTraces[site[1]].executions[site[2]].errors[site[3]]
    IN error.tool \o <<":">> \o error.file \o <<":">> \o trim(error.message)

\* `${pattern.tool} error in ${pattern.file}`
PatternText(tool, file) == tool \o <<"error", "in">> \o file

\* the order in which the loops of reflectCommand 243-270 reach the errors
SiteBefore(s, t) ==
    \/ s[1] < t[1]
    \/ s[1] = t[1] /\ s[2] < t[2]
    \/ s[1] = t[1] /\ s[2] = t[2] /\ s[3] <= t[3]

\* confidence in tenths: Math.min(traceIds.size / failedTraces.length, 1.0)
PatternConfidence(traceCount, failedCount) ==
    IF failedCount > 0
    THEN (IF traceCount >= failedCount THEN 10 ELSE (10 * traceCount) \div failedCount)
    ELSE 0

\* reflectCommand 279-312: the insight inputs of the error patterns that reach
\* confidence 0.5 and are not among the existing insights
ReflectInsights(failedTraces, existingInsights) ==
    LET sites == ErrorSites(failedTraces)
        keys == {PatternKey(failedTraces, s) : s \in sites}
        sitesOf(key) == {s \in sites : PatternKey(failedTraces, s) = key}
        \* the map entry keeps the tool, file and message of the first error
        first(key) ==
            LET s == CHOOSE s \in sitesOf(key) : \A t \in sitesOf(key) : SiteBefore(s, t)
            IN failedTraces[s[1]].executions[s[2]].errors[s[3]]
        insightOf(key) ==
            [pattern |-> PatternText(first(key).tool, first(key).file),
             description |-> trim(first(key).message),
             confidence |-> PatternConfidence(
                                Cardinality({failedTraces[s[1]].id : s \in sitesOf(key)}),
                                Len(failedTraces)),
             frequency |-> Cardinality(sitesOf(key)),
             relatedBeads |-> [i \in 1..Len(failedTraces) |-> failedTraces[i].beadId],
             metaTags |-> <<first(key).tool, "error-pattern">>]
    IN { insightOf(key) : key \in
           { key \in keys :
               /\ insightOf(key).confidence >= 5
               /\ ~\E e \in existingInsights :
                      /\ e.pattern = insightOf(key).pattern
                      /\ e.description = insightOf(key).description } }

\* repo.addInsight for each of the inputs
RECURSIVE AddInsights(_, _)
AddInsights(rows, inputs) ==
    IF inputs = {} THEN rows
    ELSE LET x == CHOOSE i \in inputs : TRUE
         IN AddInsights(addInsight(rows, x), inputs \ {x})

deleteInsight(rows, id) == {r \in rows : r.id # id}

\* curateCommand 255: the key of the deduplication map, the joined string
\* `${pattern}:${description}`
CurateKey(insight) == insight.pattern \o <<":">> \o insight.description

\* curateCommand 252-263: the listed insights are put into a Map under their
\* key: the groups come in the order of their first member, the members of a
\* group in the order listed
RECURSIVE DeduplicationMap(_, _)
DeduplicationMap(listed, groups) ==
    IF listed = <<>> THEN groups
    ELSE LET insight == Head(listed)
             at == {g \in DOMAIN groups : CurateKey(groups[g][1]) = CurateKey(insight)}
         IN DeduplicationMap(Tail(listed),
               IF at = {} THEN Append(groups, <<insight>>)
               ELSE [groups EXCEPT ![CHOOSE g \in at : TRUE] = Append(@, insight)])

\* curateCommand 278-311: the statements the transaction runs for a group:
\* deleteInsight for every member after the first, addKnowledgeItem for the
\* first unless a knowledge item listed before the transaction has its
\* description as text, deleteInsight for the first
GroupStatements(duplicates, existingKnowledge) ==
    LET representative == duplicates[1]
        exists == \E k \in existingKnowledge : k.text = representative.description
    IN [i \in 1..(Len(duplicates) - 1) |->
           [call |-> "deleteInsight", insight |-> duplicates[i + 1], duplicate |-> TRUE]]
       \o (IF exists THEN <<>>
           ELSE <<[call |-> "addKnowledgeItem", insight |-> representative,
                   duplicate |-> FALSE]>>)
       \o <<[call |-> "deleteInsight", insight |-> representative, duplicate |-> FALSE]>>

\* curateCommand 277: for (const [_, duplicates] of deduplicationMap)
RECURSIVE CurateStatements(_, _)
CurateStatements(groups, existingKnowledge) ==
    IF groups = <<>> THEN <<>>
    ELSE GroupStatements(Head(groups), existingKnowledge)
            \o CurateStatements(Tail(groups), existingKnowledge)

\* the statements of the transaction of curateCommand over the listed insights
CurateTransaction(listed, existingKnowledge) ==
    CurateStatements(DeduplicationMap(listed, <<>>), existingKnowledge)

\* curateCommand 277-312: the statements run one after the other on the
\* tables, with the counters curate returns
RECURSIVE CurateLoop(_, _)
CurateLoop(statements, acc) ==
    IF statements = <<>> THEN acc
    ELSE LET st == Head(statements)
             item == [type |-> "pattern", text |-> st.insight.description,
                      scope |-> "repo", metaTags |-> <<>>,
                      confidence |-> st.insight.confidence, helpful |-> 0, harmful |-> 0]
         IN CurateLoop(Tail(statements),
               IF st.call = "addKnowledgeItem"
               THEN [acc EXCEPT !.knowledgeItems = addKnowledgeItem(@, item),
                                !.promoted = @ + 1,
                                !.texts = @ \cup {st.insight.description}]
               ELSE [acc EXCEPT !.insights = deleteInsight(@, st.insight.id),
                                !.deduplicated = IF st.duplicate THEN @ + 1 ELSE @])

\* the rows of .ace/ace.db; the file is not there unless an earlier release
\* of the tool left it
NoAceDb == [exists |-> FALSE, insights |-> {}, knowledgeItems |-> {}]

LegacyInsightInputs ==
    { InsightInputs,
      {[pattern |-> <<"cache">>, description |-> <<"must", "expire">>,
        confidence |-> 8, frequency |-> 1],
       [pattern |-> <<"cache">>, description |-> <<"must", "expire">>,
        confidence |-> 9, frequency |-> 3]},
      {[pattern |-> <<"cache">>, description |-> <<"must", "expire">>,
        confidence |-> 8, frequency |-> 1],
       [pattern |-> <<"sessions">>, description |-> <<"must", "expire">>,
        confidence |-> 9, frequency |-> 1]} }

AceDbs ==
    {NoAceDb} \cup {[exists |-> TRUE, insights |-> InsightRowsOf(is), knowledgeItems |-> {}]
                     : is \in LegacyInsightInputs}

\* ctx.args[0] of learn: absent, 0.5, or a number outside 0..1 (in tenths)
LearnArgs == {Null, "5", "12"}

\* z.coerce.number() / Number(raw) on the arguments of the model, in tenths;
\* a text that is not a numeral coerces to NaN, which is no number for zod
IsNumber(raw) == raw \in {"5", "12"}
Number(raw) == IF raw = "5" THEN 5 ELSE 12

\* ArgsSchema.safeParse(ctx.args): at most one argument, a number in 0..1
ArgsSchema(arg) == arg = Null \/ (IsNumber(arg) /\ Number(arg) >= 0 /\ Number(arg) <= 10)

IdleLearn ==
    [pc |-> "idle", arg |-> Null, tracesAtStart |-> {}, knowledgeAtStart |-> {},
     traceCount |-> 0, insightCount |-> 0, derived |-> {}, promoted |-> 0,
     deduplicated |-> 0, promotedTexts |-> {}, applyBase |-> 0, emitted |-> {}]

\* an entry of the learn log: the outcome, the tables the call started from
\* and the fields of the LearnResult
LearnEntry(l, ok, error, rendered, knowledgeCount) ==
    [ok |-> ok, error |-> error, tracesAtStart |-> l.tracesAtStart,
     knowledgeAtStart |-> l.knowledgeAtStart,
     traceCount |-> l.traceCount, insightCount |-> l.insightCount, derived |-> l.derived,
     promoted |-> l.promoted, deduplicated |-> l.deduplicated,
     promotedTexts |-> l.promotedTexts, rendered |-> rendered,
     knowledgeCount |-> knowledgeCount]

InitLearnIdle ==
    /\ traces = {}
    /\ aceDb = NoAceDb
    /\ engramDb = TRUE
    /\ learn = IdleLearn
    /\ learnLog = <<>>

\* a project right after init (no rows yet) or before it (no database file),
\* its guidance document possibly edited since, with or without a database
\* file of an earlier release
InitLearnProject ==
    /\ InitStoreEmpty
    /\ agentsMd \in Documents
    /\ clock = 0
    /\ apply = IdleApply
    /\ applyLog = <<>>
    /\ traces = {}
    /\ aceDb \in AceDbs
    /\ engramDb \in BOOLEAN
    /\ learn = IdleLearn
    /\ learnLog = <<>>

\* captureCommand 71-86 with a valid trace
Capture(trace) ==
    /\ learn.pc = "idle"
    /\ engramDb
    /\ traces' = addTrace(traces, trace, clock)
    /\ UNCHANGED <<storeTables, applyVars, aceDb, learn, learnLog>>
    /\ UNCHANGED notLearn

\* the schema of .engram/engram.db: the one init leaves when the file exists
InitProjectSchema ==
    /\ dbTables = IF engramDb THEN runMigrations({}, {}).tables ELSE {}
    /\ schemaVersion = IF engramDb THEN runMigrations({}, {}).versions ELSE {}
    /\ mig = IdleMig
    /\ migLog = <<>>

\* what copyFileSync(templates/AGENTS.md, AGENTS.md) leaves: the template,
\* which is not part of the sources (any of the documents), or no file when
\* the copy throws
TemplateCopies == {d \in Documents : d.exists} \cup {NoFile}

\* initCommand: without .git nothing is done; otherwise the database file is
\* created when it is not there, the pending migrations are run and AGENTS.md
\* is copied from the template when it is not there
InitCommand(gitExists) ==
    /\ learn.pc = "idle"
    /\ IF ~gitExists
       THEN UNCHANGED <<engramDb, dbTables, schemaVersion, agentsMd>>
       ELSE LET r == runMigrations(dbTables, schemaVersion) IN
            /\ r.ok
            /\ engramDb' = TRUE
            /\ dbTables' = r.tables
            /\ schemaVersion' = r.versions
            /\ IF agentsMd.exists THEN UNCHANGED agentsMd
               ELSE agentsMd' \in TemplateCopies
    /\ UNCHANGED <<bbonTables, runVars, judgeVars, mig, migLog, storeVars, clock, apply,
                   applyLog, canonVars, poolVars, traces, aceDb, learn, learnLog,
                   adoptVars, curateVars>>

\* a mutant of preflight: the markers are looked for, their order is not
preflight_PresenceOnly(dbExists, file) ==
    /\ dbExists
    /\ file.exists
    /\ indexOf(file.content, beginMarker) # 0
    /\ indexOf(file.content, endMarker) # 0

\* preflight: the database file, the guidance document and its markers
preflight(dbExists, file) ==
    /\ dbExists
    /\ file.exists
    /\ ~MarkersMissing(file.content)

\* learnCommand 43-67: the arguments are validated, then preflight checks the
\* database file, the guidance document and its markers
LearnBegin(arg) ==
    /\ learn.pc = "idle"
    /\ LET l == [IdleLearn EXCEPT !.arg = arg, !.tracesAtStart = traces,
                                  !.knowledgeAtStart = knowledgeItems,
                                  !.applyBase = Len(applyLog)]
       IN IF ~ArgsSchema(arg)
          THEN /\ learnLog' = Append(learnLog,
                                LearnEntry(l, FALSE, "Validation failed", FALSE, 0))
               /\ UNCHANGED learn
          ELSE IF ~preflight(engramDb, agentsMd)
          THEN /\ learnLog' = Append(learnLog,
                                LearnEntry(l, FALSE, "Preflight failed", FALSE, 0))
               /\ UNCHANGED learn
          ELSE /\ learn' = [l EXCEPT !.pc = "reflect"]
               /\ UNCHANGED learnLog
    /\ UNCHANGED <<storeTables, applyVars, traces, aceDb>>
    /\ UNCHANGED notLearn

\* `learn` invoked from the command line
LearnStart(arg) == Len(learnLog) < MaxLearns /\ LearnBegin(arg)

\* learnCommand 73-85: reflectCommand on .engram/engram.db
LearnReflect ==
    /\ learn.pc = "reflect"
    /\ \E failedTraces \in listTracesByOutcome(traces, "failure") :
          LET added == ReflectInsights(failedTraces, insights) IN
          /\ insights' = AddInsights(insights, added)
          /\ learn' = [learn EXCEPT !.pc = "curate",
                                    !.traceCount = Len(failedTraces),
                                    !.insightCount = Cardinality(added),
                                    !.derived = {i.description : i \in added},
                                    !.emitted = added]
    /\ UNCHANGED <<knowledgeItems, shortTermMemory, workingMemory, memoryEvents,
                   applyVars, traces, aceDb, learnLog>>
    /\ UNCHANGED notLearn

\* learnCommand 87-99: curateCommand; it looks for .ace/ace.db, throws when the
\* file is not there and otherwise curates the rows of that file
LearnCurate ==
    /\ learn.pc = "curate"
    /\ IF ~aceDb.exists
       THEN /\ learnLog' = Append(learnLog,
                  LearnEntry(learn, FALSE, "Curate step failed: Database not initialized",
                             FALSE, 0))
            /\ learn' = IdleLearn
            /\ UNCHANGED aceDb
       ELSE \E listed \in listInsights(aceDb.insights,
                                       IF learn.arg = Null THEN 8 ELSE Number(learn.arg)) :
              LET r == CurateLoop(
                           CurateTransaction(listed,
                               {k \in aceDb.knowledgeItems : k.type = "pattern"}),
                                  [insights |-> aceDb.insights,
                                   knowledgeItems |-> aceDb.knowledgeItems,
                                   promoted |-> 0, deduplicated |-> 0, texts |-> {}])
              IN /\ aceDb' = [aceDb EXCEPT !.insights = r.insights,
                                           !.knowledgeItems = r.knowledgeItems]
                 /\ learn' = [learn EXCEPT !.pc = "apply", !.promoted = r.promoted,
                                           !.deduplicated = r.deduplicated,
                                           !.promotedTexts = r.texts]
                 /\ UNCHANGED learnLog
    /\ UNCHANGED <<storeTables, applyVars, traces>>
    /\ UNCHANGED notLearn

\* learnCommand 101-113: applyCommand is called once
LearnApplyStart == learn.pc = "apply" /\ Len(applyLog) = learn.applyBase /\ ApplyBegin
LearnApplyPromote == learn.pc = "apply" /\ ApplyPromote
LearnApplyRender == learn.pc = "apply" /\ ApplyRender

\* learnCommand 108-126: applyCommand has returned or thrown
LearnReturn ==
    /\ learn.pc = "apply"
    /\ apply.pc = "idle"
    /\ Len(applyLog) = learn.applyBase + 1
    /\ LET a == applyLog[Len(applyLog)] IN
       learnLog' = Append(learnLog,
          IF a.ok
          THEN LearnEntry(learn, TRUE, Null, a.rendered,
                          Cardinality({k \in knowledgeItems : k.confidence >= 5}))
          ELSE LearnEntry(learn, FALSE, "Apply step failed", FALSE, 0))
    /\ learn' = IdleLearn
    /\ UNCHANGED <<storeTables, applyVars, traces, aceDb>>
    /\ UNCHANGED notLearn

NextLearn ==
    \/ \E gitExists \in BOOLEAN : InitCommand(gitExists)
    \/ \E trace \in TraceInputs : Capture(trace)
    \/ \E arg \in LearnArgs : LearnStart(arg)
    \/ LearnReflect
    \/ LearnCurate
    \/ LearnApplyStart
    \/ LearnApplyPromote
    \/ LearnApplyRender
    \/ LearnReturn

-----------------------------------------------------------------------------
(* bbon run: the learnCommand call of an attempt (run.ts 167).  The call is  *)
(* awaited, so its steps are those of learnCommand on the project.           *)

\* what learnCommand returned: the counts of reflect, curate and apply, the
\* descriptions reflect emitted and the texts curate promoted
LearnResult(entry) ==
    [reflect |-> [insightCount |-> entry.insightCount, traceCount |-> entry.traceCount,
                  insights |-> entry.derived],
     curate |-> [promoted |-> entry.promoted, deduplicated |-> entry.deduplicated,
                 knowledgeItems |-> entry.promotedTexts],
     apply |-> [rendered |-> entry.rendered, knowledgeCount |-> entry.knowledgeCount]]

\* the learn call of the attempt has returned or thrown
LearnCallOver ==
    /\ runPc = "learn"
    /\ learn.pc = "idle"
    /\ Len(learnLog) = runLearnBase + 1

\* run.ts 167: learnCommand(stepCtx, cwd) with the arguments of `bbon run`
RunLearnCall ==
    /\ runPc = "learn"
    /\ Len(learnLog) = runLearnBase
    /\ LearnBegin(runArg)

\* run.ts 167-176: learnCommand returns; the `learn_complete` step, stepIndex 1
RunLearnOk ==
    /\ LearnCallOver
    /\ learnLog[Len(learnLog)].ok
    /\ LET res == LearnResult(learnLog[Len(learnLog)]) IN
       /\ runLearnResult' = res
       /\ attemptSteps' = addAttemptStep(attemptSteps,
                             [attemptId |-> runAttemptId, stepIndex |-> 1,
                              kind |-> "learn_complete", input |-> "{}",
                              output |-> res, observation |-> "{}"])
    /\ runPc' = "finish"
    /\ UNCHANGED <<bbonRuns, attempts, judgePairs, judgeOutcomes,
                   runN, runI, runAttemptId, runStatus, runInvocations,
                   runArg, runSeed, runRunId, runError, runLearnBase>>
    /\ UNCHANGED notRun

\* a mutant of RunLearnFail: the error leaves bbonRunCommand
RunLearnFail_Abort ==
    /\ LearnCallOver
    /\ ~learnLog[Len(learnLog)].ok
    /\ runStatus' = "failed"
    /\ runPc' = "idle"
    /\ UNCHANGED <<bbonRuns, attempts, attemptSteps, judgePairs, judgeOutcomes,
                   runN, runI, runAttemptId, runLearnResult, runInvocations,
                   runArg, runSeed, runRunId, runError, runLearnBase>>
    /\ UNCHANGED notRun

\* run.ts 167, 183-194: learnCommand throws; the `error` step, whose
\* stepIndex is learnResult ? 1 : 0
RunLearnFail ==
    /\ LearnCallOver
    /\ ~learnLog[Len(learnLog)].ok
    /\ runStatus' = "failed"
    /\ attemptSteps' = addAttemptStep(attemptSteps,
                          [attemptId |-> runAttemptId,
                           stepIndex |-> IF runLearnResult # NoRow THEN 1 ELSE 0,
                           kind |-> "error", input |-> "{}",
                           output |-> "{}", observation |-> learnLog[Len(learnLog)].error])
    /\ runPc' = "finish"
    /\ UNCHANGED <<bbonRuns, attempts, judgePairs, judgeOutcomes,
                   runN, runI, runAttemptId, runLearnResult, runInvocations,
                   runArg, runSeed, runRunId, runError, runLearnBase>>
    /\ UNCHANGED notRun

NextRun ==
    \/ \E n \in RunNs, arg \in RunArgs, seed \in SeedOptions, isTTY \in BOOLEAN :
          RunInvoke(n, arg, seed, isTTY)
    \/ \E raw \in StdinTexts : RunReadStdin(raw)
    \/ RemoveEngramDir
    \/ runPc \in {"idle", "read"} /\ Tick
    \/ RunAddAttempt
    \/ RunMarkRunning
    \/ RunReflectStep
    \/ RunLearnCall
    \/ LearnReflect
    \/ LearnCurate
    \/ LearnApplyStart
    \/ LearnApplyPromote
    \/ LearnApplyRender
    \/ LearnReturn
    \/ RunLearnOk
    \/ RunLearnFail
    \/ RunFinishAttempt

\* the traces captured before `bbon run`: none, or one of the traces
RunTraces == {{}} \cup {addTrace({}, trace, 0) : trace \in TraceInputs}

\* a project, initialized or not, its guidance document possibly edited
\* since, with or without a database file of an earlier release
InitRunProject ==
    /\ InitStoreEmpty
    /\ agentsMd \in Documents
    /\ clock = 0
    /\ apply = IdleApply
    /\ applyLog = <<>>
    /\ engramDb \in BOOLEAN
    /\ traces \in (IF engramDb THEN RunTraces ELSE {{}})
    /\ aceDb \in AceDbs
    /\ learn = IdleLearn
    /\ learnLog = <<>>

-----------------------------------------------------------------------------
(* C16, C17 *)

\* the messages of the errors of the failed executions of the failed traces
FailedMessages(rows) ==
    UNION { UNION { {t.executions[j].errors[k].message
                       : k \in 1..Len(t.executions[j].errors)}
                    : j \in {j \in 1..Len(t.executions) : t.executions[j].status = "fail"} }
            : t \in {t \in rows : t.outcome = "failure"} }

\* the call got past the validation of its arguments and the preflight
PastPreflight(entry) == entry.error \notin {"Validation failed", "Preflight failed"}

\* C16 (as claimed): when Learn has run twice in a row over the same captured
\* traces, whose failed traces all carry one and the same message, the second
\* Learn succeeds and reports curate.promoted = 0 and the knowledge count of
\* the first, and exactly one KnowledgeItem has that message as its text.
C16_DeduplicationAcrossReruns ==
    (learn.pc = "idle" /\ Len(learnLog) >= 2) =>
        LET first == learnLog[Len(learnLog) - 1]
            second == learnLog[Len(learnLog)]
            messages == FailedMessages(second.tracesAtStart)
        IN ( /\ PastPreflight(first) /\ PastPreflight(second)
             /\ first.tracesAtStart = second.tracesAtStart
             /\ Cardinality(messages) = 1
             /\ \A m \in messages : trim(m) # <<>> )
           => /\ second.ok
              /\ second.promoted = 0
              /\ second.knowledgeCount = first.knowledgeCount
              /\ \A m \in messages :
                    Cardinality({k \in knowledgeItems : k.text = trim(m)}) = 1

\* C17 (as claimed): a Learn invoked in an initialized project holding exactly
\* one trace, a failed one with a non-empty error message, succeeds with
\* reflect.traceCount = 1, reflect.insightCount >= 1, curate.promoted >= 1,
\* the insights Reflect derived among those Curate promoted, and
\* apply.rendered = true.
C17_FullLearningCycle ==
    \A i \in 1..Len(learnLog) :
        LET e == learnLog[i] IN
        ( /\ PastPreflight(e)
          /\ Cardinality(e.tracesAtStart) = 1
          /\ \E m \in FailedMessages(e.tracesAtStart) : trim(m) # <<>> )
        => /\ e.ok
           /\ e.traceCount = 1
           /\ e.insightCount >= 1
           /\ e.promoted >= 1
           /\ e.derived \subseteq e.promotedTexts
           /\ e.rendered

-----------------------------------------------------------------------------
(* C21 *)

\* C21: the helpful and harmful counters of every stored KnowledgeItem are at
\* least zero, and a feedback update that was rejected changed no row.
C21_CountersNonNegative ==
    /\ \A r \in knowledgeItems : r.helpful >= 0 /\ r.harmful >= 0
    /\ \A i \in 1..Len(repoLog) :
          (repoLog[i].op = "updateKnowledgeItemFeedback" /\ ~repoLog[i].ok)
              => ~repoLog[i].changed

\* C21 witness: a feedback update with a negative delta on a stored item was
\* rejected and the item still has its counters
C21_Witness ==
    \E i \in 1..Len(repoLog) : \E r \in knowledgeItems :
        /\ repoLog[i].op = "updateKnowledgeItemFeedback"
        /\ repoLog[i].arg.id = r.id
        /\ repoLog[i].arg.helpfulDelta < 0
        /\ ~repoLog[i].ok
        /\ r.helpful = 0 /\ r.harmful = 0

-----------------------------------------------------------------------------
(* C22 *)

\* the pair invocation j is about to add, as addJudgePair receives it
PairInput(j) ==
    [runId |-> JudgedRun,
     leftAttemptId |-> CurrentPair(j).leftAttemptId,
     rightAttemptId |-> CurrentPair(j).rightAttemptId,
     promptVersion |-> judge[j].promptVersion]

\* a stored pair has the (runId, left, right) of the input under another id
UniqueConflict(rows, pair) ==
    \E r \in rows :
        /\ r.runId = pair.runId
        /\ r.leftAttemptId = pair.leftAttemptId
        /\ r.rightAttemptId = pair.rightAttemptId
        /\ r.id # deterministicId(pair)

\* C22 (as claimed): an add whose insert is rejected by a uniqueness
\* constraint other than the identity of the derived id does not return
\* normally (the caller receives a ConflictError): addJudgePair returns to
\* bbonJudgeCommand only when no stored pair has the same (runId, left, right)
\* under a different id.
C22_ConflictNotSwallowed ==
    [][\A j \in 1..MaxJudges :
          (judge[j].pc = "add" /\ judge'[j].pc # "add")
              => ~UniqueConflict(judgePairs, PairInput(j))]_vars

-----------------------------------------------------------------------------
(* bbon adopt: bbonAdoptCommand on a run that was run and judged *)

AdoptN == 3      \* the --n of the run that is adopted

AdoptedRun == RunId(AdoptN)

RECURSIVE AttemptsByOrdinal(_, _)
AttemptsByOrdinal(S, ascending) ==
    IF S = {} THEN <<>>
    ELSE LET m == CHOOSE a \in S : \A b \in S :
                     IF ascending THEN a.ordinal <= b.ordinal ELSE a.ordinal >= b.ordinal
         IN <<m>> \o AttemptsByOrdinal(S \ {m}, ascending)

\* a mutant of listAttempts: ORDER BY ordinal DESC
listAttempts_OrdinalDesc(rows, runId) ==
    AttemptsByOrdinal({a \in rows : a.runId = runId}, FALSE)

\* Repository.listAttempts: SELECT ... WHERE run_id = ? ORDER BY ordinal ASC
listAttempts(rows, runId) ==
    AttemptsByOrdinal({a \in rows : a.runId = runId}, TRUE)

\* Array.prototype.filter
RECURSIVE SelectCompleted(_)
SelectCompleted(seq) ==
    IF seq = <<>> THEN <<>>
    ELSE IF Head(seq).status = "completed"
         THEN <<Head(seq)>> \o SelectCompleted(Tail(seq))
         ELSE SelectCompleted(Tail(seq))

\* Repository.listJudgePairs: the pairs of the run
listJudgePairs(rows, runId) == {p \in rows : p.runId = runId}

\* the rowid of the judge_pairs row an outcome is joined with
PairRowidOf(o, pairs) ==
    LET p == CHOOSE q \in pairs : q.id = o.pairId IN p.rowid

\* the join of listJudgeOutcomes: the pairs of the run are walked through
\* idx_judge_pairs_run_id (in rowid order) and the outcomes of each pair
\* through idx_judge_outcomes_pair_id (in rowid order)
JoinedBefore(o, q, pairs) ==
    \/ PairRowidOf(o, pairs) < PairRowidOf(q, pairs)
    \/ (PairRowidOf(o, pairs) = PairRowidOf(q, pairs) /\ o.rowid <= q.rowid)

\* Repository.listJudgeOutcomes({runId}): the outcomes joined with their pair,
\* ORDER BY confidence DESC; rows of equal confidence stay in the order the
\* join produced them
RECURSIVE OutcomesByConfidence(_, _)
OutcomesByConfidence(S, pairs) ==
    IF S = {} THEN <<>>
    ELSE LET m == CHOOSE o \in S : \A q \in S :
                     \/ o.confidence > q.confidence
                     \/ (o.confidence = q.confidence /\ JoinedBefore(o, q, pairs))
         IN <<m>> \o OutcomesByConfidence(S \ {m}, pairs)

listJudgeOutcomes(outcomes, pairs, runId) ==
    OutcomesByConfidence({o \in outcomes :
                            \E p \in pairs : p.id = o.pairId /\ p.runId = runId},
                         {p \in pairs : p.runId = runId})

\* adopt.ts 82-91: a zeroed score per completed attempt
InitialScores(completed) ==
    [id \in {completed[i].id : i \in 1..Len(completed)} |->
        [attemptId |-> id, wins |-> 0, losses |-> 0, score |-> 0]]

\* adopt.ts 93-114: every outcome credits its winner with a win and its
\* confidence, and the other attempt of its pair with a loss
RECURSIVE ScoreOutcomes(_, _, _)
ScoreOutcomes(scores, outcomes, pairs) ==
    IF outcomes = <<>> THEN scores
    ELSE LET outcome == Head(outcomes)
             hits == {p \in pairs : p.id = outcome.pairId}
         IN IF hits = {} THEN ScoreOutcomes(scores, Tail(outcomes), pairs)
            ELSE LET pair == CHOOSE p \in hits : TRUE
                     winnerId == outcome.winnerAttemptId
                     loserId == IF pair.leftAttemptId = winnerId
                                THEN pair.rightAttemptId ELSE pair.leftAttemptId
                     s1 == IF winnerId \in DOMAIN scores
                           THEN [scores EXCEPT ![winnerId].wins = @ + 1,
                                               ![winnerId].score = @ + outcome.confidence]
                           ELSE scores
                     s2 == IF loserId \in DOMAIN s1
                           THEN [s1 EXCEPT ![loserId].losses = @ + 1]
                           ELSE s1
                 IN ScoreOutcomes(s2, Tail(outcomes), pairs)

\* adopt.ts 117: the comparator (a, b) => b.wins - a.wins || b.score - a.score
CompareScores(a, b) ==
    IF b.wins - a.wins # 0 THEN b.wins - a.wins ELSE b.score - a.score

\* Array.prototype.sort is stable: an element goes behind every element the
\* comparator does not put after it
RECURSIVE InsertStable(_, _)
InsertStable(sorted, x) ==
    IF sorted = <<>> THEN <<x>>
    ELSE IF CompareScores(Head(sorted), x) <= 0
         THEN <<Head(sorted)>> \o InsertStable(Tail(sorted), x)
         ELSE <<x>> \o sorted

RECURSIVE StableSort(_)
StableSort(seq) ==
    IF seq = <<>> THEN <<>>
    ELSE InsertStable(StableSort(SubSeq(seq, 1, Len(seq) - 1)), seq[Len(seq)])

\* adopt.ts 82-118: Array.from(scores.values()) keeps the insertion order of
\* the map, the order of the completed attempts
RankAttempts(completed, outcomes, pairs) ==
    LET scores == ScoreOutcomes(InitialScores(completed), outcomes, pairs)
    IN StableSort([i \in 1..Len(completed) |-> scores[completed[i].id]])

\* Repository.listAttemptSteps + adopt.ts 141: the learn_complete steps
LearnSteps(rows, attemptId) ==
    {s \in rows : s.attemptId = attemptId /\ s.kind = "learn_complete"}

\* adopt.ts 149-151: output.knowledgeItems when the output has that property
OutputKnowledgeItems(output) ==
    IF "knowledgeItems" \in DOMAIN output THEN output.knowledgeItems ELSE <<>>

\* adopt.ts 154-163: the item handed to addKnowledgeItem, with its defaults
PullThroughInput(item) ==
    [type |-> IF item.type = "" THEN "pattern" ELSE item.type,
     text |-> item.text, scope |-> "project",
     confidence |-> IF item.confidence = 0 THEN 8 ELSE item.confidence,
     helpful |-> 0, harmful |-> 0]

\* adopt.ts 152-171: the items are added one by one; a rejected item is skipped
RECURSIVE AddPulledItems(_, _)
AddPulledItems(rows, items) ==
    IF items = <<>> THEN rows
    ELSE LET input == PullThroughInput(Head(items))
         IN AddPulledItems(IF KnowledgeItemSchema(input)
                           THEN addKnowledgeItem(rows, input) ELSE rows,
                           Tail(items))

\* adopt.ts 148-173 over the learn_complete steps of the winner
RECURSIVE PullThrough(_, _)
PullThrough(rows, steps) ==
    IF steps = {} THEN rows
    ELSE LET s == CHOOSE x \in steps : \A y \in steps : x.stepIndex <= y.stepIndex
         IN PullThrough(AddPulledItems(rows, OutputKnowledgeItems(s.output)), steps \ {s})

\* curateCommand 288-298: the knowledge item curate made of an insight during
\* the first attempt of the run
CuratedItem == [type |-> "pattern", text |-> "missing semicolon", scope |-> "repo",
                confidence |-> 10, helpful |-> 0, harmful |-> 0]

\* what learnCommand returned to an attempt of the run: the results of
\* reflect, curate and apply.  The first attempt's curate promoted an insight,
\* the later ones found nothing to promote.
LearnResultOf(promoted) ==
    [reflect |-> [insightCount |-> 0, traceCount |-> 0, insights |-> <<>>],
     curate |-> IF promoted
                THEN [promoted |-> 1, deduplicated |-> 0,
                      knowledgeItems |->
                         <<[id |-> deterministicId(CuratedItem),
                            type |-> CuratedItem.type, text |-> CuratedItem.text,
                            confidence |-> CuratedItem.confidence]>>]
                ELSE [promoted |-> 0, deduplicated |-> 0, knowledgeItems |-> <<>>],
     apply |-> [rendered |-> promoted, knowledgeCount |-> 0, workingMemoryCount |-> 0]]

AdoptAttemptInput(i) ==
    [runId |-> AdoptedRun, ordinal |-> i, status |-> "pending", result |-> "{}"]

\* `bbon run` was invoked twice with the same seed: the learn call of an
\* attempt returned the same result twice, or threw and then returned, or
\* threw the same error twice, or threw two errors
AdoptHistories == {<<"returned", "returned">>, <<CurateFailed, "returned">>,
                   <<CurateFailed, CurateFailed>>, <<ValidationFailed, CurateFailed>>}
AdoptResults(promoted) == [returned |-> LearnResultOf(promoted)]

\* what the judge answered for a pair, or that the pair was not judged
JudgeAnswers == {[winner |-> "A", confidence |-> 9, rationale |-> "r1"],
                 [winner |-> "B", confidence |-> 9, rationale |-> "r1"],
                 [winner |-> "B", confidence |-> 6, rationale |-> "r1"]}
NotJudged == [winner |-> "none", confidence |-> 0, rationale |-> ""]

\* judge.ts 94-183 over a list of pairs: the pair row and, when the pair was
\* judged, the outcome row; the call that fails throws out of the loop, so
\* the pairs behind it are neither stored nor judged
RECURSIVE JudgedPairs(_, _, _)
JudgedPairs(pairs, answer, rows) ==
    IF pairs = <<>> THEN rows
    ELSE LET input == [runId |-> AdoptedRun, leftAttemptId |-> Head(pairs).leftAttemptId,
                       rightAttemptId |-> Head(pairs).rightAttemptId,
                       promptVersion |-> "v1"]
             a == answer[Head(pairs)]
             prs == addJudgePair(rows.pairs, input)
             j == parseJudgmentResponse(a, input.leftAttemptId, input.rightAttemptId)
             diff == generateNarrativeDiff(
                         getAttempt(attempts, input.leftAttemptId),
                         getAttempt(attempts, input.rightAttemptId),
                         listAttemptSteps(attemptSteps, input.leftAttemptId),
                         listAttemptSteps(attemptSteps, input.rightAttemptId))
             outs == IF a = NotJudged THEN rows.outcomes
                     ELSE addJudgeOutcome(rows.outcomes,
                             [pairId |-> deterministicId(input),
                              winnerAttemptId |-> j.winnerAttemptId,
                              confidence |-> j.confidence,
                              rationaleText |-> j.rationale,
                              narrativeDiff |-> diff,
                              model |-> "gpt-4"])
         IN IF a = NotJudged THEN [pairs |-> prs, outcomes |-> outs]
            ELSE JudgedPairs(Tail(pairs), answer, [pairs |-> prs, outcomes |-> outs])

\* The store after `bbon run --n AdoptN` and `bbon judge` on its run: every
\* attempt is completed or failed; the pairs of completed attempts are stored
\* with the outcome the judge gave, up to the pair at which the judge failed,
\* which is stored without an outcome
InitAdoptTables ==
    /\ bbonRuns = addBbonRun({}, BbonRunInput(AdoptN, SeedOf("42", 0)))
    /\ \E history \in [1..AdoptN -> AdoptHistories] :
          /\ LET inputs == [i \in 1..AdoptN |-> AdoptAttemptInput(i - 1)]
                 results == [i \in 1..AdoptN |-> AdoptResults(i = 1)]
             IN /\ attempts = {AttemptAfterRun(inputs[i], history[i], results[i])
                                  : i \in 1..AdoptN}
                /\ attemptSteps = StepsAfterRun({}, inputs, history, results, 0)
          /\ LET completed == {a \in attempts : a.status = "completed"}
                 pairs == GeneratePairs(completed)
                 pairSet == {pairs[k] : k \in 1..Len(pairs)}
             IN \E answer \in [pairSet -> JudgeAnswers \cup {NotJudged}] :
                   LET rows == JudgedPairs(pairs, answer, [pairs |-> {}, outcomes |-> {}])
                   IN judgePairs = rows.pairs /\ judgeOutcomes = rows.outcomes

AdoptDocuments == {File(<<Text("# Guide"), beginMarker, endMarker, Text("footer")>>), NoFile}

\* the insights reflect left in the store during the run, if any
AdoptInsights == {{}, {i \in InsightInputs : i.confidence = 9}}

\* curate wrote the item it promoted during the run into .ace/ace.db
InitAdoptLearn ==
    /\ traces = {}
    /\ engramDb = TRUE
    /\ aceDb = [exists |-> TRUE, insights |-> {},
                knowledgeItems |->
                   IF \E a \in attempts : a.ordinal = 0 /\ a.status = "completed"
                   THEN addKnowledgeItem({}, CuratedItem) ELSE {}]
    /\ learn = IdleLearn
    /\ learnLog = <<>>

InitAdoptProject ==
    /\ knowledgeItems = {}
    /\ \E is \in AdoptInsights : insights = InsightRowsOf(is)
    /\ shortTermMemory = {}
    /\ workingMemory = {}
    /\ memoryEvents = {}
    /\ auditLog = <<>>
    /\ agentsMd \in AdoptDocuments
    /\ clock = 0
    /\ apply = IdleApply
    /\ applyLog = <<>>

IdleAdopt == [pc |-> "idle", runId |-> NoId, ranked |-> <<>>, applyBase |-> 0,
              error |-> Null, knowledgeApplied |-> FALSE]

InitAdoptIdle == adopt = IdleAdopt

\* no curateCommand and no initCommand call is in progress
IdleCurateSession == [pc |-> "idle", arg |-> Null, listed |-> <<>>, k |-> 0,
                      inTransaction |-> FALSE, externalCall |-> FALSE]
IdleInitSession == [pc |-> "idle", calls |-> 0, bd |-> Null, pending |-> <<>>, k |-> 1,
                    inTransaction |-> FALSE, externalCall |-> FALSE]
IdleSessions == [curate |-> IdleCurateSession, init |-> IdleInitSession]

InitCurateIdle ==
    /\ curateLog = <<>>
    /\ session = IdleSessions

\* adopt.ts 27-173: the options, the run, its completed attempts, the
\* outcomes, the ranking, the winner and the knowledge of its learn steps
AdoptRank(runId) ==
    /\ adopt.pc = "idle"
    /\ LET fail(msg) == /\ adopt' = [adopt EXCEPT !.pc = "failed", !.runId = runId,
                                                  !.error = msg]
                        /\ UNCHANGED knowledgeItems
           completedAttempts == SelectCompleted(listAttempts(attempts, runId))
           pairs == listJudgePairs(judgePairs, runId)
           outcomes == listJudgeOutcomes(judgeOutcomes, judgePairs, runId)
           rankedAttempts == RankAttempts(completedAttempts, outcomes, pairs)
       IN IF runId = NoId THEN fail("Missing required option: --run <run-id>")
          ELSE IF ~\E r \in bbonRuns : r.id = runId THEN fail("Run not found")
          ELSE IF Len(completedAttempts) < 2
          THEN fail("Insufficient completed attempts for adoption")
          ELSE IF outcomes = <<>> THEN fail("No judge outcomes found")
          ELSE /\ knowledgeItems' =
                     PullThrough(knowledgeItems,
                                 LearnSteps(attemptSteps, rankedAttempts[1].attemptId))
               /\ adopt' = [adopt EXCEPT !.pc = "apply", !.runId = runId,
                                         !.ranked = rankedAttempts,
                                         !.applyBase = Len(applyLog)]
    /\ UNCHANGED <<insights, shortTermMemory, workingMemory, memoryEvents>>
    /\ UNCHANGED <<bbonTables, runVars, judgeVars, migVars, auditLog, repoLog,
                   applyVars, canonVars, poolVars, learnVars, curateVars>>

\* adopt.ts 181: applyCommand is called once
AdoptApplyStart == adopt.pc = "apply" /\ Len(applyLog) = adopt.applyBase /\ ApplyStart
AdoptApplyPromote == adopt.pc = "apply" /\ ApplyPromote
AdoptApplyRender == adopt.pc = "apply" /\ ApplyRender

\* adopt.ts 181-197: applyCommand has returned or thrown
AdoptReturn ==
    /\ adopt.pc = "apply"
    /\ apply.pc = "idle"
    /\ Len(applyLog) = adopt.applyBase + 1
    /\ LET a == applyLog[Len(applyLog)] IN
       adopt' = IF a.ok
                THEN [adopt EXCEPT !.pc = "done", !.knowledgeApplied = a.rendered]
                ELSE [adopt EXCEPT !.pc = "failed", !.error = a.error]
    /\ UNCHANGED <<bbonTables, runVars, judgeVars, migVars, storeVars, applyVars,
                   canonVars, poolVars, learnVars, curateVars>>

NextAdopt ==
    \/ \E runId \in {AdoptedRun, NoId} : AdoptRank(runId)
    \/ AdoptApplyStart
    \/ AdoptApplyPromote
    \/ AdoptApplyRender
    \/ AdoptReturn

-----------------------------------------------------------------------------
(* C23 *)

\* the outcomes of the adopted run that name the attempt as winner
OutcomesNaming(a) ==
    {o \in judgeOutcomes : /\ o.winnerAttemptId = a.id
                           /\ \E p \in judgePairs : p.id = o.pairId /\ p.runId = a.runId}

RECURSIVE SumConfidence(_)
SumConfidence(S) ==
    IF S = {} THEN 0
    ELSE LET o == CHOOSE x \in S : TRUE IN o.confidence + SumConfidence(S \ {o})

\* a comes before b under the ranking: more wins, else a higher score, else
\* the lower ordinal
RankedBefore(a, b) ==
    LET wa == Cardinality(OutcomesNaming(a))
        wb == Cardinality(OutcomesNaming(b))
        sa == SumConfidence(OutcomesNaming(a))
        sb == SumConfidence(OutcomesNaming(b))
    IN \/ wa > wb
       \/ wa = wb /\ sa > sb
       \/ wa = wb /\ sa = sb /\ a.ordinal < b.ordinal

-----------------------------------------------------------------------------
(* C24 *)

\* the stored outcomes of the pair of these two attempts, either orientation
OutcomesOfPair(outcomeRows, pairRows, runId, pair) ==
    {o \in outcomeRows : \E p \in pairRows :
        /\ p.id = o.pairId
        /\ p.runId = runId
        /\ UnorderedPair(p) = UnorderedPair(pair)}

\* what an invocation that ends has stored and returned: one outcome per pair
\* of completed attempts, and the returned list names exactly those outcomes
OneOutcomePerPairReturned(outcomeRows, pairRows, js) ==
    /\ \A k \in 1..Len(js.pairs) :
          Cardinality(OutcomesOfPair(outcomeRows, pairRows, JudgedRun, js.pairs[k])) = 1
    /\ Len(js.outcomes) = Len(js.pairs)
    /\ \A k \in 1..Len(js.pairs) :
          \E o \in OutcomesOfPair(outcomeRows, pairRows, JudgedRun, js.pairs[k]) :
              /\ js.outcomes[k].pairId = o.pairId
              /\ js.outcomes[k].winnerAttemptId = o.winnerAttemptId
              /\ js.outcomes[k].confidence = o.confidence

\* C24 (as claimed): when a judge invocation on a run with k >= 2 completed
\* attempts ends successfully, exactly one JudgeOutcome is stored for each
\* unordered pair of completed attempts and the invocation returns exactly
\* those outcomes.
C24_OneOutcomePerPairAfterJudge ==
    [][\A j \in 1..MaxJudges :
          (judge[j].pc # "done" /\ judge'[j].pc = "done")
              => OneOutcomePerPairReturned(judgeOutcomes', judgePairs', judge'[j])]_vars

-----------------------------------------------------------------------------
(* C25 *)

\* the knowledge items recorded in the outputs of the learn_complete steps of
\* an attempt: those its curate step promoted (CurateResult.knowledgeItems)
RecordedKnowledge(attemptId) ==
    UNION { {s.output.curate.knowledgeItems[i] :
                i \in 1..Len(s.output.curate.knowledgeItems)}
            : s \in LearnSteps(attemptSteps, attemptId) }

\* C25 (as claimed): after adoption, every knowledge item recorded in the
\* output of the winning attempt's learn_complete steps exists as a
\* KnowledgeItem in the knowledge store.
C25_KnowledgePullThrough ==
    adopt.pc = "done" =>
        \A item \in RecordedKnowledge(adopt.ranked[1].attemptId) :
            \E k \in knowledgeItems : k.type = item.type /\ k.text = item.text

-----------------------------------------------------------------------------
(* C26 *)

\* invocation i asked the LLM about this pair and stored this outcome
ProducedBy(i, pairRow, o) ==
    /\ UnorderedPair(pairRow) \in judge[i].called
    /\ \E k \in 1..Len(judge[i].outcomes) :
          /\ judge[i].outcomes[k].pairId = o.pairId
          /\ judge[i].outcomes[k].winnerAttemptId = o.winnerAttemptId
          /\ judge[i].outcomes[k].confidence = o.confidence

\* C26 (as claimed): an invocation reuses a stored outcome for a pair only
\* when the outcome was produced for that pair under the promptVersion and
\* the model of the invocation.
C26_ReuseOnlyUnderSameKey ==
    [][\A j \in 1..MaxJudges :
          (judge[j].pc = "check" /\ judge'[j].pc \in {"find", "done"})
              => LET o == getJudgeOutcomeByPairId(judgeOutcomes, judge[j].judgePair.id)
                 IN \E i \in 1..MaxJudges :
                       /\ ProducedBy(i, judge[j].judgePair, o)
                       /\ judge[i].promptVersion = judge[j].promptVersion
                       /\ judge[i].model = judge[j].model]_vars

-----------------------------------------------------------------------------
(* C27 *)

\* the minimum confidence of the curate step of the Learn in progress, in tenths
CurateThreshold == IF learn.arg = Null THEN 8 ELSE Number(learn.arg)

\* C27 (as claimed): when the Curate step completes successfully, no insight
\* that was stored with confidence at or above the threshold when it started
\* remains in the store, promoted or not: neither among the insights of the
\* project store, where Reflect stores them, nor in the database curate opened.
C27_InsightsConsumed ==
    [][(learn.pc = "curate" /\ learn'.pc = "apply")
          => /\ \A i \in insights :
                   i.confidence >= CurateThreshold
                       => ~\E r \in insights' : r.id = i.id
             /\ \A i \in aceDb.insights :
                   i.confidence >= CurateThreshold
                       => ~\E r \in aceDb'.insights : r.id = i.id]_vars

-----------------------------------------------------------------------------
(* C28 *)

\* two distinct pattern-type rows with one text
SameTextPatterns(rows) ==
    {pair \in rows \X rows :
        /\ pair[1].type = "pattern" /\ pair[2].type = "pattern"
        /\ pair[1].id # pair[2].id
        /\ pair[1].text = pair[2].text}

\* C28 (as claimed): Curate never causes two pattern-type KnowledgeItems to
\* have the same text: a description is promoted only when no pattern-type
\* item has it as text, one created earlier in the same invocation included.
C28_NoSameTextPatterns ==
    [][(learn.pc = "curate" /\ learn'.pc = "apply")
          => SameTextPatterns(aceDb'.knowledgeItems)
                \subseteq SameTextPatterns(aceDb.knowledgeItems)]_vars

-----------------------------------------------------------------------------
(* C29 *)

\* the error groups (tool, file, trimmed non-empty message) of the failed
\* executions of the failed traces
ErrorGroups(rows) ==
    UNION { UNION { { <<t.executions[j].errors[k].tool, t.executions[j].errors[k].file,
                        trim(t.executions[j].errors[k].message)>>
                      : k \in {k \in 1..Len(t.executions[j].errors) :
                                 trim(t.executions[j].errors[k].message) # <<>>} }
                    : j \in {j \in 1..Len(t.executions) : t.executions[j].status = "fail"} }
            : t \in {t \in rows : t.outcome = "failure"} }

\* the failed traces that contain the group
TracesContaining(rows, group) ==
    {t \in rows : t.outcome = "failure" /\ group \in ErrorGroups({t})}

\* the group an emitted insight is about
GroupOf(insight) ==
    <<insight.metaTags[1],
      SubSeq(insight.pattern, Len(insight.metaTags[1]) + 3, Len(insight.pattern)),
      insight.description>>

\* C29 (as claimed): the related subjects of an insight Reflect emitted are
\* the distinct non-empty subject ids of exactly the failed traces that
\* contain the insight's error group.
C29_RelatedSubjectsOfGroup ==
    learn.pc \in {"curate", "apply"} =>
        \A x \in learn.emitted :
            {x.relatedBeads[i] : i \in 1..Len(x.relatedBeads)}
                = {t.beadId : t \in TracesContaining(traces, GroupOf(x))}

-----------------------------------------------------------------------------
(* `en capture` and `en reflect` invoked on their own; C31 *)

\* traces for reflect: one whose two errors differ in tool and file and format
\* to the same pattern text, two that share an error, a success, and two
\* whose errors differ in tool and file (`ts` in `lint:src/a.ts`, `ts:lint` in
\* `src/a.ts`) and have the same message
ReflectTraceInputs ==
    { [beadId |-> "bead-1", outcome |-> "failure",
       executions |-> <<[status |-> "fail",
                         errors |-> <<TraceError(<<"make", "error", "in", "lint">>,
                                                 <<"a.ts">>, <<"failed">>),
                                      TraceError(<<"make">>,
                                                 <<"lint", "error", "in", "a.ts">>,
                                                 <<"failed">>)>>]>>],
      [beadId |-> "bead-2", outcome |-> "failure",
       executions |-> <<[status |-> "fail",
                         errors |-> <<TraceError(<<"eslint">>, <<"src/utils.ts">>,
                                                 <<"missing", "semicolon">>)>>]>>],
      [beadId |-> "bead-3", outcome |-> "failure",
       executions |-> <<[status |-> "fail",
                         errors |-> <<TraceError(<<"eslint">>, <<"src/utils.ts">>,
                                                 <<"missing", "semicolon">>),
                                      TraceError(<<"tsc">>, <<"src/test.ts">>,
                                                 <<"type", "error">>)>>]>>],
      [beadId |-> "bead-4", outcome |-> "success",
       executions |-> <<[status |-> "pass", errors |-> <<>>]>>],
      [beadId |-> "bead-5", outcome |-> "failure",
       executions |-> <<[status |-> "fail",
                         errors |-> <<TraceError(<<"ts">>, <<"lint", ":", "src/a.ts">>,
                                                 <<"unused", "import">>)>>]>>],
      [beadId |-> "bead-6", outcome |-> "failure",
       executions |-> <<[status |-> "fail",
                         errors |-> <<TraceError(<<"ts", ":", "lint">>, <<"src/a.ts">>,
                                                 <<"unused", "import">>)>>]>>] }

\* reflectCommand 222-326: the failed traces are listed, their errors grouped,
\* and every group at or above one half that is not among the insights listed
\* before the loop is stored
Reflect ==
    /\ learn.pc = "idle"
    /\ engramDb
    /\ \E failedTraces \in listTracesByOutcome(traces, "failure") :
          insights' = AddInsights(insights, ReflectInsights(failedTraces, insights))
    /\ UNCHANGED <<knowledgeItems, shortTermMemory, workingMemory, memoryEvents,
                   applyVars, traces, aceDb, learn, learnLog>>
    /\ UNCHANGED notLearn

NextReflect ==
    \/ \E gitExists \in BOOLEAN : InitCommand(gitExists)
    \/ Cardinality(traces) < MaxReflectTraces
          /\ \E trace \in ReflectTraceInputs : Capture(trace)
    \/ Reflect

-----------------------------------------------------------------------------
(* C30 *)

\* min(1.0, containing / failed) in tenths
GroupConfidence(containing, failed) ==
    IF containing >= failed THEN 10 ELSE (10 * containing) \div failed

\* the text `${tool} error in ${file}` of an error group
GroupPattern(group) == group[1] \o <<"error", "in">> \o group[2]

\* C30 (as claimed): a reflect that stores insights stores one for an error
\* group (tool, file, non-empty message) of the failed traces exactly when at
\* least half of the failed traces contain the group and no stored insight
\* has the group's pattern and description; the insight carries
\* min(1.0, containing / failed) as its confidence, and nothing else is stored.
C30_EmittedExactlyAtHalf ==
    [][insights' # insights
          => LET failed == Cardinality({t \in traces : t.outcome = "failure"})
                 containing(g) == Cardinality(TracesContaining(traces, g))
                 stored(g) == \E e \in insights : /\ e.pattern = GroupPattern(g)
                                                  /\ e.description = g[3]
                 emitted == insights' \ insights
                 about(x, g) == /\ x.pattern = GroupPattern(g)
                                /\ x.description = g[3]
                                /\ x.confidence = GroupConfidence(containing(g), failed)
             IN /\ \A g \in ErrorGroups(traces) :
                      (\E x \in emitted : about(x, g))
                          <=> (2 * containing(g) >= failed /\ ~stored(g))
                /\ \A x \in emitted : \E g \in ErrorGroups(traces) : about(x, g)]_vars

\* two stored insights with the same pattern and description
SamePatternAndDescription(rows) ==
    \E a, b \in rows : /\ a.id # b.id
                       /\ a.pattern = b.pattern
                       /\ a.description = b.description

\* C31: after any sequence of Capture and Reflect invocations no two stored
\* insights share the same (pattern, description)
C31_NoTwoInsightsSharePatternAndDescription == ~SamePatternAndDescription(insights)

-----------------------------------------------------------------------------
(* `curate` invoked on its own, with a statement that may fail; C33 *)

\* a mutant of runInTransaction: the body runs outside any transaction
runInTransaction_NoRollback(before, body, threw) == body

\* Repository.runInTransaction, db.transaction(fn)(): what the database holds
\* afterwards; the writes of fn are committed when fn returns and rolled back
\* when it throws
runInTransaction(before, body, threw) == IF threw THEN before ELSE body

\* the insights and knowledge items of .ace/ace.db
AceTables(db) == [insights |-> db.insights, knowledgeItems |-> db.knowledgeItems]

\* curateCommand 228-242: the argument and the database file are checked
CurateRejected(arg) ==
    IF arg # Null /\ (Number(arg) < 0 \/ Number(arg) > 10)
    THEN "Confidence must be a number between 0 and 1"
    ELSE IF ~aceDb.exists THEN "Database not initialized" ELSE Null

\* the statements of the transaction curateCommand runs on the listed
\* insights; the knowledge items of type pattern are listed before it begins
\* (curateCommand 265)
CurateTransactionOf(listed) ==
    CurateTransaction(listed, {k \in aceDb.knowledgeItems : k.type = "pattern"})

\* the tables inside the transaction of curateCommand 276-313 when the first
\* n of its statements have run
CurateBody(listed, n) ==
    CurateLoop(SubSeq(CurateTransactionOf(listed), 1, n),
               [insights |-> aceDb.insights, knowledgeItems |-> aceDb.knowledgeItems,
                promoted |-> 0, deduplicated |-> 0, texts |-> {}])

CurateEntry(arg, ok, error, after, reached) ==
    [arg |-> arg, ok |-> ok, error |-> error, before |-> AceTables(aceDb),
     after |-> after, reached |-> reached]

\* curateCommand 224-325: the call is rejected, or the transaction runs to its
\* end and is committed
Curate(arg) ==
    /\ Len(curateLog) < MaxCurates
    /\ IF CurateRejected(arg) # Null
       THEN /\ curateLog' = Append(curateLog,
                   CurateEntry(arg, FALSE, CurateRejected(arg), AceTables(aceDb),
                               AceTables(aceDb)))
            /\ UNCHANGED aceDb
       ELSE \E listed \in listInsights(aceDb.insights, IF arg = Null THEN 8 ELSE Number(arg)) :
              LET r == CurateBody(listed, Len(CurateTransactionOf(listed)))
                  after == runInTransaction(AceTables(aceDb), AceTables(r), FALSE)
              IN /\ aceDb' = [aceDb EXCEPT !.insights = after.insights,
                                           !.knowledgeItems = after.knowledgeItems]
                 /\ curateLog' = Append(curateLog,
                        CurateEntry(arg, TRUE, Null, after, AceTables(r)))
    /\ UNCHANGED <<storeTables, applyVars, traces, engramDb, learn, learnLog>>
    /\ UNCHANGED <<bbonTables, runVars, judgeVars, migVars, auditLog, repoLog,
                   canonVars, poolVars, adoptVars, session>>

\* curateCommand 276-313: a statement of the transaction throws (disk full,
\* I/O error) when n of its statements have run
CurateThrow(arg) ==
    /\ Len(curateLog) < MaxCurates
    /\ CurateRejected(arg) = Null
    /\ \E listed \in listInsights(aceDb.insights, IF arg = Null THEN 8 ELSE Number(arg)) :
          \E n \in 0..(Len(CurateTransactionOf(listed)) - 1) :
             LET r == CurateBody(listed, n)
                 after == runInTransaction(AceTables(aceDb), AceTables(r), TRUE)
             IN /\ aceDb' = [aceDb EXCEPT !.insights = after.insights,
                                          !.knowledgeItems = after.knowledgeItems]
                /\ curateLog' = Append(curateLog,
                       CurateEntry(arg, FALSE, "SqliteError", after, AceTables(r)))
    /\ UNCHANGED <<storeTables, applyVars, traces, engramDb, learn, learnLog>>
    /\ UNCHANGED <<bbonTables, runVars, judgeVars, migVars, auditLog, repoLog,
                   canonVars, poolVars, adoptVars, session>>

NextCurate ==
    \/ \E arg \in LearnArgs : Curate(arg)
    \/ \E arg \in LearnArgs : CurateThrow(arg)

\* C33: when curate fails, the insights and the knowledge items of the
\* database are those it held before the call: none of the deletions and
\* insertions made before the failure is kept
C33_FailedCurateKeepsNothing ==
    \A i \in DOMAIN curateLog :
        ~curateLog[i].ok => curateLog[i].after = curateLog[i].before

\* a curate that had deleted an insight and inserted a knowledge item when a
\* statement failed
C33_Witness ==
    \E i \in DOMAIN curateLog :
        /\ curateLog[i].error = "SqliteError"
        /\ curateLog[i].reached.insights # curateLog[i].before.insights
        /\ curateLog[i].reached.knowledgeItems # curateLog[i].before.knowledgeItems
        /\ aceDb.insights = curateLog[i].before.insights

-----------------------------------------------------------------------------
(* The operations with a transaction or an external call, step by step:     *)
(* `curate` (one transaction), `init` (a child process, then one            *)
(* transaction per pending migration), `bbon judge` (a network call); C32   *)

\* what a step of curate or init never writes
notSession == <<bbonTables, runVars, judgeVars, mig, migLog, storeTables, auditLog,
                repoLog, clock, apply, applyLog, canonVars, poolVars, traces, learn,
                learnLog, adoptVars>>

\* a mutant of execSync: exec, which returns while the child still runs
execSync_Detached(running) == running

\* child_process.execSync: it returns, or throws, when the child has exited;
\* whether the child is running afterwards
execSync(running) == FALSE

\* curateCommand 228-274: the argument and the database file are checked, the
\* insights at or above the threshold are listed and grouped
CurateOpen(arg) ==
    /\ session.curate.pc = "idle"
    /\ Len(curateLog) < MaxCurates
    /\ IF CurateRejected(arg) # Null
       THEN /\ curateLog' = Append(curateLog,
                   CurateEntry(arg, FALSE, CurateRejected(arg), AceTables(aceDb),
                               AceTables(aceDb)))
            /\ UNCHANGED session
       ELSE /\ \E listed \in listInsights(aceDb.insights,
                                          IF arg = Null THEN 8 ELSE Number(arg)) :
                 session' = [session EXCEPT !.curate =
                                [@ EXCEPT !.pc = "listed", !.arg = arg, !.listed = listed]]
            /\ UNCHANGED curateLog
    /\ UNCHANGED <<aceDb, engramDb, dbTables, schemaVersion, agentsMd>>
    /\ UNCHANGED notSession

\* curateCommand 276, Repository.runInTransaction: db.transaction(fn)() begins
\* the transaction
CurateBegin ==
    /\ session.curate.pc = "listed"
    /\ session' = [session EXCEPT !.curate =
                      [@ EXCEPT !.pc = "transaction", !.k = 0, !.inTransaction = TRUE]]
    /\ UNCHANGED <<aceDb, curateLog, engramDb, dbTables, schemaVersion, agentsMd>>
    /\ UNCHANGED notSession

\* curateCommand 277-312: the next statement of the transaction runs (k
\* counts the statements run); nothing is committed
CurateStatement ==
    /\ session.curate.pc = "transaction"
    /\ session.curate.k < Len(CurateTransactionOf(session.curate.listed))
    /\ session' = [session EXCEPT !.curate = [@ EXCEPT !.k = @ + 1]]
    /\ UNCHANGED <<aceDb, curateLog, engramDb, dbTables, schemaVersion, agentsMd>>
    /\ UNCHANGED notSession

\* curateCommand 313: the function returned, the transaction is committed
CurateCommit ==
    /\ session.curate.pc = "transaction"
    /\ session.curate.k = Len(CurateTransactionOf(session.curate.listed))
    /\ LET c == session.curate
           r == CurateBody(c.listed, c.k)
           after == runInTransaction(AceTables(aceDb), AceTables(r), FALSE)
       IN /\ aceDb' = [aceDb EXCEPT !.insights = after.insights,
                                    !.knowledgeItems = after.knowledgeItems]
          /\ curateLog' = Append(curateLog,
                 CurateEntry(c.arg, TRUE, Null, after, AceTables(r)))
    /\ session' = [session EXCEPT !.curate = IdleCurateSession]
    /\ UNCHANGED <<engramDb, dbTables, schemaVersion, agentsMd>>
    /\ UNCHANGED notSession

\* curateCommand 277-312: the next statement throws (disk full, I/O error);
\* the transaction is rolled back and the error leaves curateCommand
CurateRollback ==
    /\ session.curate.pc = "transaction"
    /\ session.curate.k < Len(CurateTransactionOf(session.curate.listed))
    /\ LET c == session.curate
           r == CurateBody(c.listed, c.k)
           after == runInTransaction(AceTables(aceDb), AceTables(r), TRUE)
       IN /\ aceDb' = [aceDb EXCEPT !.insights = after.insights,
                                    !.knowledgeItems = after.knowledgeItems]
          /\ curateLog' = Append(curateLog,
                 CurateEntry(c.arg, FALSE, "SqliteError", after, AceTables(r)))
    /\ session' = [session EXCEPT !.curate = IdleCurateSession]
    /\ UNCHANGED <<engramDb, dbTables, schemaVersion, agentsMd>>
    /\ UNCHANGED notSession

\* initCommand has returned or thrown: no call is in progress
InitReturned(calls) == [IdleInitSession EXCEPT !.calls = calls]

\* initCommand 29-61: without .git init returns; with .beads the second step
\* is skipped; otherwise execSync('bd init') starts the child and blocks
InitGitCheck(gitExists, beadsExists) ==
    /\ session.init.pc = "idle"
    /\ session.init.calls < MaxInits
    /\ session' = [session EXCEPT !.init =
                      IF ~gitExists THEN InitReturned(@.calls + 1)
                      ELSE IF beadsExists
                           THEN [@ EXCEPT !.calls = @ + 1, !.pc = "database",
                                          !.bd = "skipped"]
                           ELSE [@ EXCEPT !.calls = @ + 1, !.pc = "bd",
                                          !.externalCall = TRUE]]
    /\ UNCHANGED <<aceDb, curateLog, engramDb, dbTables, schemaVersion, agentsMd>>
    /\ UNCHANGED notSession

\* initCommand 61-90: the child has exited and execSync returns or throws;
\* the step is completed or failed and init goes on
InitBeadsExit ==
    /\ session.init.pc = "bd"
    /\ \E status \in {"completed", "failed"} :
          session' = [session EXCEPT !.init =
                         [@ EXCEPT !.pc = "database", !.bd = status,
                                   !.externalCall = execSync(@)]]
    /\ UNCHANGED <<aceDb, curateLog, engramDb, dbTables, schemaVersion, agentsMd>>
    /\ UNCHANGED notSession

\* initCommand 93-134, runMigrations 91-94: getDatabase opens the file and
\* creates it when it is not there; the pending scripts are determined
InitOpenDatabase ==
    /\ session.init.pc = "database"
    /\ engramDb' = TRUE
    /\ session' = [session EXCEPT !.init =
                      [@ EXCEPT !.pc = "migrate", !.k = 1,
                                !.pending = PendingFrom(loadMigrations,
                                               getCurrentVersion(dbTables, schemaVersion))]]
    /\ UNCHANGED <<aceDb, curateLog, dbTables, schemaVersion, agentsMd>>
    /\ UNCHANGED notSession

\* applyMigration 80-84: db.transaction(fn)() begins the transaction of the
\* next pending script
InitMigrationBegin ==
    /\ session.init.pc = "migrate"
    /\ ~session.init.inTransaction
    /\ session.init.k <= Len(session.init.pending)
    /\ session' = [session EXCEPT !.init = [@ EXCEPT !.inTransaction = TRUE]]
    /\ UNCHANGED <<aceDb, curateLog, engramDb, dbTables, schemaVersion, agentsMd>>
    /\ UNCHANGED notSession

\* applyMigration 81-84: db.exec ran the script and the transaction is
\* committed, or it threw, the transaction is rolled back and the error
\* leaves initCommand
InitMigrationEnd ==
    /\ session.init.pc = "migrate"
    /\ session.init.inTransaction
    /\ LET r == applyMigration(session.init.pending[session.init.k],
                               dbTables, schemaVersion)
       IN /\ dbTables' = r.tables
          /\ schemaVersion' = r.versions
          /\ session' = [session EXCEPT !.init =
                            IF r.ok THEN [@ EXCEPT !.k = @ + 1, !.inTransaction = FALSE]
                            ELSE InitReturned(@.calls)]
    /\ UNCHANGED <<aceDb, curateLog, engramDb, agentsMd>>
    /\ UNCHANGED notSession

\* initCommand 159-206: every pending script is applied; AGENTS.md is copied
\* from the template when it is not there, and init returns
InitAgentsMd ==
    /\ session.init.pc = "migrate"
    /\ ~session.init.inTransaction
    /\ session.init.k > Len(session.init.pending)
    /\ IF agentsMd.exists THEN UNCHANGED agentsMd
       ELSE agentsMd' \in TemplateCopies
    /\ session' = [session EXCEPT !.init = InitReturned(@.calls)]
    /\ UNCHANGED <<aceDb, curateLog, engramDb, dbTables, schemaVersion>>
    /\ UNCHANGED notSession

\* C32: no operation has a database transaction open while an external
\* process or a network call it made is in flight: no judge invocation while
\* its call to the LLM is in flight, and neither init, which runs `bd init`
\* and the migrations, nor curate
C32_NoTransactionDuringExternalCall ==
    /\ \A j \in 1..MaxJudges : judge[j].pc = "llm" => ~judge[j].inTransaction
    /\ \A op \in DOMAIN session :
          ~(session[op].inTransaction /\ session[op].externalCall)

\* an LLM call is in flight in a judge invocation that has stored its pair,
\* while curate is inside its transaction and init, which ran `bd init`, is
\* inside the transaction of a migration
C32_Witness ==
    /\ \E j \in 1..MaxJudges : /\ judge[j].pc = "llm"
                               /\ judge[j].judgePair \in judgePairs
    /\ session.curate.inTransaction
    /\ session.curate.k > 0
    /\ session.init.inTransaction
    /\ session.init.bd \in {"completed", "failed"}

-----------------------------------------------------------------------------
(* C34 *)

\* the step ends a call of the migration engine with an error
MigrationFailed ==
    /\ Len(migLog') = Len(migLog) + 1
    /\ ~migLog'[Len(migLog')].ok

\* C34: a step in which a migration script fails leaves the tables and the
\* recorded versions as they were, so the current version is still the one
\* read before the script; what earlier scripts committed stays
C34_FailedScriptPersistsNothing ==
    [][MigrationFailed => /\ dbTables' = dbTables
                          /\ schemaVersion' = schemaVersion
                          /\ getCurrentVersion(dbTables', schemaVersion')
                                = getCurrentVersion(dbTables, schemaVersion)]_vars

\* script 0002 was applied to a database without schema_version: its CREATE
\* TABLE statements ran, its INSERT failed, and none of its tables is there
C34_Witness ==
    /\ \E i \in DOMAIN migLog : /\ migLog[i].op = "applyMigration"
                                /\ ~migLog[i].ok
                                /\ migLog[i].version = 2
    /\ "schema_version" \notin dbTables
    /\ ~ExecScript(loadMigrations[2], dbTables, schemaVersion).ok
    /\ ExecScript(loadMigrations[2], dbTables, schemaVersion).tables # dbTables
    /\ "tasks" \notin dbTables

-----------------------------------------------------------------------------
(* C35 *)

\* the begin marker is followed, somewhere later in the content, by the end marker
MarkersInOrder(content) ==
    \E i, k \in 1..Len(content) :
        /\ i < k
        /\ content[i] = beginMarker /\ \A h \in 1..(i - 1) : content[h] # beginMarker
        /\ content[k] = endMarker /\ \A h \in 1..(k - 1) : content[h] # endMarker

\* what the claim lists: the database file is missing, the guidance document is
\* missing, or its markers are missing or out of order
PreflightFails == ~engramDb \/ ~agentsMd.exists \/ ~MarkersInOrder(agentsMd.content)

\* the step is a call of learn: it ends with an error or starts the first stage
LearnCalled == learn.pc = "idle" /\ (Len(learnLog') = Len(learnLog) + 1 \/ learn'.pc # "idle")

\* C35: a call of learn on a project where the preflight fails raises an error
\* without starting reflect, curate or apply, and leaves the tables of both
\* databases, the traces and the guidance document as they were
C35_PreflightFailureRunsNothing ==
    [][(PreflightFails /\ LearnCalled) =>
          /\ learn'.pc = "idle"
          /\ ~learnLog'[Len(learnLog')].ok
          /\ learnLog'[Len(learnLog')].error \in {"Validation failed", "Preflight failed"}
          /\ UNCHANGED <<storeTables, traces, aceDb, agentsMd, applyLog>>]_vars

\* learn was called with a valid argument on a guidance document whose end
\* marker comes before its begin marker, and raised the preflight error
C35_Witness ==
    /\ learn.pc = "idle"
    /\ Len(learnLog) > 0
    /\ learnLog[Len(learnLog)].error = "Preflight failed"
    /\ engramDb
    /\ agentsMd.exists
    /\ indexOf(agentsMd.content, beginMarker) > indexOf(agentsMd.content, endMarker)
    /\ indexOf(agentsMd.content, endMarker) > 0

\* learn raised the preflight error where the database file is missing
C35_DatabaseMissingReached ==
    /\ Len(learnLog) > 0
    /\ learnLog[Len(learnLog)].error = "Preflight failed"
    /\ ~engramDb

-----------------------------------------------------------------------------
(* C36 *)

\* the attempt is the left or the right attempt of the pair
SideOf(pair, attemptId) == attemptId \in {pair.leftAttemptId, pair.rightAttemptId}

\* C36: the judgment an invocation holds names the left or the right attempt of
\* the pair it compared, and every stored outcome names the left or the right
\* attempt of its pair
C36_WinnerIsLeftOrRight ==
    /\ \A j \in 1..MaxJudges :
          judge[j].pc = "persist" =>
             /\ SideOf(CurrentPair(j), judge[j].judgment.winnerAttemptId)
             /\ SideOf(judge[j].judgePair, judge[j].judgment.winnerAttemptId)
    /\ \A o \in judgeOutcomes :
          \E p \in judgePairs : p.id = o.pairId /\ SideOf(p, o.winnerAttemptId)

\* the answer B was parsed and stored: an outcome names the right attempt of
\* its pair, while another invocation has failed on its pair
C36_Witness ==
    /\ \E o \in judgeOutcomes, p \in judgePairs :
          p.id = o.pairId /\ o.winnerAttemptId = p.rightAttemptId /\ o.confidence = 6
    /\ \E j \in 1..MaxJudges : judge[j].pc = "failed" /\ judge[j].judgePair # NoRow

-----------------------------------------------------------------------------
(* `bbon judge` invoked again after an invocation has ended; C37 *)

\* no other invocation is under way
NoneRunning(j) ==
    \A i \in 1..MaxJudges : i # j => judge[i].pc \in {"idle", "done", "failed"}

JudgeSeqStart(j, model, promptVersion) == NoneRunning(j) /\ JudgeStart(j, model, promptVersion)

NextJudgeSeq ==
    \/ \E j \in 1..MaxJudges, m \in Models, pv \in PromptVersions : JudgeSeqStart(j, m, pv)
    \/ \E j \in 1..MaxJudges : JudgeFindPair(j)
    \/ \E j \in 1..MaxJudges : JudgeAddPair(j)
    \/ \E j \in 1..MaxJudges : JudgeCacheHit(j)
    \/ \E j \in 1..MaxJudges : JudgeCacheMiss(j)
    \/ \E j \in 1..MaxJudges, r \in LLMResponses : JudgeLLMReturn(j, r)
    \/ \E j \in 1..MaxJudges : JudgeLLMFail(j)
    \/ \E j \in 1..MaxJudges : JudgePersist(j)

\* the store after `bbon run --n AdoptN` returned, before any judge invocation
InitJudgeSeqTables ==
    /\ bbonRuns = addBbonRun({}, BbonRunInput(AdoptN, SeedOf("42", 0)))
    /\ \E history \in [1..AdoptN -> AdoptHistories] :
          LET inputs == [i \in 1..AdoptN |-> AdoptAttemptInput(i - 1)]
              results == [i \in 1..AdoptN |-> AdoptResults(FALSE)]
          IN /\ attempts = {AttemptAfterRun(inputs[i], history[i], results[i])
                               : i \in 1..AdoptN}
             /\ attemptSteps = StepsAfterRun({}, inputs, history, results, 0)
    /\ judgePairs = {}
    /\ judgeOutcomes = {}

\* how many times compareAttempts returned a judgment for the unordered pair
RECURSIVE CountIn(_, _)
CountIn(seq, u) ==
    IF seq = <<>> THEN 0
    ELSE (IF Head(seq) = u THEN 1 ELSE 0) + CountIn(Tail(seq), u)

SuccessfulCalls(u) ==
    LET RECURSIVE Sum(_)
        Sum(j) == IF j = 0 THEN 0 ELSE CountIn(judge[j].answered, u) + Sum(j - 1)
    IN Sum(MaxJudges)

\* an outcome is stored under a pair row of the two attempts
OutcomeStoredFor(u) ==
    \E p \in judgePairs, o \in judgeOutcomes :
        {p.leftAttemptId, p.rightAttemptId} = u /\ o.pairId = p.id

\* C37: over invocations that do not overlap, compareAttempts returns a
\* judgment at most once for each unordered pair of attempts, and the outcome
\* of every judgment an invocation got and stored is still stored, whether
\* the invocation went on, ended or failed on a later pair
C37_OneSuccessfulCallPerPair ==
    /\ \A a, b \in attempts : SuccessfulCalls({a.id, b.id}) <= 1
    /\ \A j \in 1..MaxJudges : \A i \in 1..Len(judge[j].answered) :
          (judge[j].pc = "persist" /\ i = Len(judge[j].answered))
             \/ OutcomeStoredFor(judge[j].answered[i])

\* an invocation stored an outcome and then failed on a later pair; the next
\* invocation reused that outcome, judged the remaining pairs and ended
C37_Witness ==
    \E j, i \in 1..MaxJudges :
        /\ judge[j].pc = "failed" /\ Len(judge[j].answered) = 1
        /\ judge[i].pc = "done" /\ Len(judge[i].answered) = 2
        /\ judge[j].answered[1] \in judge[i].cachedAtStart
        /\ Len(judge[i].outcomes) = 3

-----------------------------------------------------------------------------
(* C38 *)

\* initDatabase, `readonly = false` in the destructuring: the mode the handle
\* is opened in
EffectiveReadonly(readonly) == readonly = "true"

\* C38: the registry holds at most one handle per path and effective mode, so
\* getDatabase with readonly omitted and with readonly false give one handle
C38_OneHandlePerPathAndMode ==
    \A e, f \in pool.instances :
        ( /\ e.key[1] = f.key[1]
          /\ EffectiveReadonly(e.key[2]) = EffectiveReadonly(f.key[2]) )
        => e.handle = f.handle

-----------------------------------------------------------------------------
(* C39 *)

\* the insight has a promoted_to_working_memory event and the working memory
\* holds the entry made from it
ClassifiedIn(events, memory, x) ==
    /\ \E e \in events : /\ e.subjectId = deterministicId(x)
                         /\ e.subjectKind = "insight"
                         /\ e.event = "promoted_to_working_memory"
    /\ \E w \in memory : /\ w.contentText = <<x.pattern, "-", x.description>>
                         /\ w.type = classifyInsight(x)

\* the step ends a learn invocation that had got past reflect
LearnEnds == learn.pc \in {"curate", "apply"} /\ learn'.pc = "idle"

\* C39: in a learn call with the default threshold, an insight of confidence
\* 0.8 or more that reflect stored is not deleted before it is classified, and
\* is classified when the call ends
C39_ClassifiedBeforeCurateDeletes ==
    [][\A x \in learn.emitted :
          (learn.arg = Null /\ x.confidence >= 8) =>
             /\ (\A r \in insights' : r.id # deterministicId(x))
                    => ClassifiedIn(memoryEvents', workingMemory', x)
             /\ LearnEnds => ClassifiedIn(memoryEvents', workingMemory', x)]_vars

\* the other outcome: a learn call that reached apply ended with the insight
\* reflect stored classified and still in the insights table
C39_ClassifiedAfterCurate ==
    /\ learn.pc = "apply"
    /\ apply.pc = "idle"
    /\ Len(applyLog) = learn.applyBase + 1
    /\ \E x \in learn.emitted :
          /\ x.confidence >= 8
          /\ ClassifiedIn(memoryEvents, workingMemory, x)
          /\ \E r \in insights : r.id = deterministicId(x)

-----------------------------------------------------------------------------
(* Specifications *)

\* `bbon run` invoked on an initialized project
InitRun ==
    InitBbonTables /\ InitRunProc /\ InitJudgeProc /\ InitRepoLog
    /\ InitCanonIdle /\ InitPoolEmpty /\ InitRunProject /\ InitProjectSchema
    /\ InitAdoptIdle /\ InitCurateIdle

SpecRun == InitRun /\ [][NextRun]_vars

\* `bbon judge` invoked on the store a finished `bbon run --n MaxN` left
InitJudge ==
    InitJudgeTables /\ InitRunProc /\ InitJudgeProc /\ InitMigVars /\ InitStoreEmpty /\ InitRepoLog
    /\ InitApplyIdle /\ InitCanonIdle /\ InitPoolEmpty /\ InitLearnIdle /\ InitAdoptIdle /\ InitCurateIdle

SpecJudge == InitJudge /\ [][NextJudge]_vars

\* the migration engine on a new database file
InitMigrate ==
    InitBbonTables /\ InitRunProc /\ InitJudgeProc /\ InitMigVars /\ InitStoreEmpty /\ InitRepoLog
    /\ InitApplyIdle /\ InitCanonIdle /\ InitPoolEmpty /\ InitLearnIdle /\ InitAdoptIdle /\ InitCurateIdle

SpecMigrate == InitMigrate /\ [][NextMigrate]_vars

\* Repository calls on an empty, migrated store
InitRepo ==
    InitBbonTables /\ InitRunProc /\ InitJudgeProc /\ InitMigVars /\ InitStoreEmpty /\ InitRepoLog
    /\ InitApplyIdle /\ InitCanonIdle /\ InitPoolEmpty /\ InitLearnIdle /\ InitAdoptIdle /\ InitCurateIdle

SpecRepo == InitRepo /\ [][NextRepo]_vars

\* Repository calls and audit log writes on an empty, migrated store
SpecAudit == InitRepo /\ [][NextAudit]_vars

\* Repository calls on the attempts of a stored run
InitAttempt ==
    InitAttemptCalls /\ InitRunProc /\ InitJudgeProc /\ InitMigVars /\ InitStoreEmpty /\ InitRepoLog
    /\ InitApplyIdle /\ InitCanonIdle /\ InitPoolEmpty /\ InitLearnIdle /\ InitAdoptIdle /\ InitCurateIdle

SpecAttempt == InitAttempt /\ [][NextAttempt]_vars

\* `apply` invoked on a project with stored knowledge and insights
InitApply ==
    InitBbonTables /\ InitRunProc /\ InitJudgeProc /\ InitMigVars /\ InitRepoLog
    /\ InitApplyStore /\ InitCanonIdle /\ InitPoolEmpty /\ InitLearnIdle /\ InitAdoptIdle /\ InitCurateIdle

SpecApply == InitApply /\ [][NextApply]_vars

\* deterministicId applied to two key permutations of one creation input
InitCanon ==
    InitBbonTables /\ InitRunProc /\ InitJudgeProc /\ InitMigVars /\ InitStoreEmpty /\ InitRepoLog
    /\ InitApplyIdle /\ InitCanonInputs /\ InitPoolEmpty /\ InitLearnIdle /\ InitAdoptIdle /\ InitCurateIdle

SpecCanon == InitCanon /\ [][NextCanon]_vars

\* calls on the connection registry of a new process
InitPool ==
    InitBbonTables /\ InitRunProc /\ InitJudgeProc /\ InitMigVars /\ InitStoreEmpty /\ InitRepoLog
    /\ InitApplyIdle /\ InitCanonIdle /\ InitPoolEmpty /\ InitLearnIdle /\ InitAdoptIdle /\ InitCurateIdle

SpecPool == InitPool /\ [][NextPool]_vars

\* `capture` and `learn` invoked on an initialized project
InitLearn ==
    InitBbonTables /\ InitRunProc /\ InitJudgeProc /\ InitRepoLog
    /\ InitCanonIdle /\ InitPoolEmpty /\ InitLearnProject /\ InitProjectSchema
    /\ InitAdoptIdle /\ InitCurateIdle

SpecLearn == InitLearn /\ [][NextLearn]_vars

\* `bbon adopt` invoked on a run that was run and judged
InitAdopt ==
    InitAdoptTables /\ InitRunProc /\ InitJudgeProc /\ InitMigVars /\ InitRepoLog
    /\ InitAdoptProject /\ InitCanonIdle /\ InitPoolEmpty /\ InitAdoptLearn /\ InitAdoptIdle /\ InitCurateIdle

SpecAdopt == InitAdopt /\ [][NextAdopt]_vars

\* a project right after init on which traces are captured and reflected
InitReflect ==
    InitBbonTables /\ InitRunProc /\ InitJudgeProc /\ InitRepoLog
    /\ InitCanonIdle /\ InitPoolEmpty /\ InitLearnProject /\ InitProjectSchema
    /\ InitAdoptIdle /\ InitCurateIdle

SpecReflect == InitReflect /\ [][NextReflect]_vars

\* a database file of an earlier release, or none, on which curate is invoked
InitCurate ==
    InitBbonTables /\ InitRunProc /\ InitJudgeProc /\ InitMigVars /\ InitRepoLog
    /\ InitCanonIdle /\ InitPoolEmpty /\ InitLearnProject /\ InitAdoptIdle /\ InitCurateIdle

SpecCurate == InitCurate /\ [][NextCurate]_vars

\* the judge invocations one after the other, next to the steps of curate and
\* of init
NextTxn ==
    \/ NextJudgeSeq
    \/ \E arg \in LearnArgs : CurateOpen(arg)
    \/ CurateBegin
    \/ CurateStatement
    \/ CurateCommit
    \/ CurateRollback
    \/ \E gitExists, beadsExists \in BOOLEAN : InitGitCheck(gitExists, beadsExists)
    \/ InitBeadsExit
    \/ InitOpenDatabase
    \/ InitMigrationBegin
    \/ InitMigrationEnd
    \/ InitAgentsMd

\* an initialized project whose run has two completed attempts, with a
\* database file of an earlier release at .ace/ace.db that holds a group of
\* insights to deduplicate
InitTxnTables ==
    /\ bbonRuns = addBbonRun({}, BbonRunInput(MaxN, SeedOf("42", 0)))
    /\ LET inputs == [i \in 1..MaxN |-> AttemptInput(i - 1)]
           history == [i \in 1..MaxN |-> <<"returned", "returned">>]
       IN /\ attempts = {AttemptAfterRun(inputs[i], history[i], RunResults)
                            : i \in 1..MaxN}
          /\ attemptSteps = StepsAfterRun({}, inputs, history,
                                          [i \in 1..MaxN |-> RunResults], 0)
    /\ judgePairs = {}
    /\ judgeOutcomes = {}

InitTxnProject ==
    /\ InitStoreEmpty
    /\ InitApplyIdle
    /\ traces = {}
    /\ aceDb \in {db \in AceDbs : SamePatternAndDescription(db.insights)}
    /\ engramDb = TRUE
    /\ learn = IdleLearn
    /\ learnLog = <<>>

InitTxn ==
    InitTxnTables /\ InitRunProc /\ InitJudgeProc /\ InitRepoLog /\ InitCanonIdle
    /\ InitPoolEmpty /\ InitTxnProject /\ InitProjectSchema /\ InitAdoptIdle
    /\ InitCurateIdle

SpecTxn == InitTxn /\ [][NextTxn]_vars

\* `bbon judge` invoked one invocation after the other on a run of AdoptN attempts
InitJudgeSeq ==
    InitJudgeSeqTables /\ InitRunProc /\ InitJudgeProc /\ InitMigVars /\ InitStoreEmpty
    /\ InitRepoLog /\ InitApplyIdle /\ InitCanonIdle /\ InitPoolEmpty /\ InitLearnIdle /\ InitAdoptIdle
    /\ InitCurateIdle

SpecJudgeSeq == InitJudgeSeq /\ [][NextJudgeSeq]_vars

====
